---- MODULE Spec2Model ----
(***************************************************************************)
(* Model of src/main.py (Chatterous, a Discord bot): the SQLite store, the *)
(* in-memory session maps, the on_message handler, the prefix commands and *)
(* the reminders worker.                                                   *)
(*                                                                         *)
(* Everything runs on one cooperative asyncio loop: a coroutine runs       *)
(* without interruption from one `await` to the next.  Each action of the  *)
(* model is therefore one such run: the code of a handler from the point   *)
(* where it is started or resumed up to the await where it suspends next   *)
(* (or to its end).  The code between two awaits is written as operators   *)
(* from a state record to a state record (Seg...), chained the way the     *)
(* control flow of the source chains them.                                 *)
(***************************************************************************)
EXTENDS Integers, Sequences, FiniteSets, TLC

VARIABLES
    users,               \* table users: user_id -> row
    reminders,           \* table reminders: set of rows
    next_reminder_id,    \* AUTOINCREMENT counter of table reminders
    active_trivia,       \* dict channel_id -> (answer, asker)
    trivia_scores,       \* dict user_id -> score
    last_react_time,     \* dict (user_id, channel_id) -> time   (_last_react_time)
    last_reply_time,     \* dict (user_id, channel_id) -> time   (_last_reply_time)
    config,              \* the AUTO_REACT_* / AUTO_REPLY_* settings read from the environment
    clock,               \* time.time()
    live_channels,       \* channels bot.get_channel resolves
    task,                \* the on_message coroutines in flight: slot -> frame
    worker,              \* the frame of reminders_worker
    n_msgs,              \* messages received so far
    n_ticks,             \* clock steps taken so far
    closed,              \* bot.is_closed()
    reaction_roles,      \* table reaction_roles: rows in rowid order
    guild,               \* the guild as the cache has it: roles, members, roles of members
    rtask,               \* the raw reaction handlers in flight: slot -> frame
    poll,                \* the frame of poll_slash and the reactions on its message
    infractions,         \* table infractions: rows in id order
    mtask,               \* the moderation commands in flight: slot -> frame
    hist                 \* history: what has been applied and sent so far

vars == <<users, reminders, next_reminder_id, active_trivia, trivia_scores,
          last_react_time, last_reply_time, config, clock,
          live_channels, task, worker, n_msgs, n_ticks, closed,
          reaction_roles, guild, rtask, poll, infractions, mtask, hist>>

\* ------------------------------------------------------------------ bounds
MaxMsgs == 3
MaxHandlers == 2
MaxTicks == 2
MaxReminders == 2
MaxCoolMsgs == 2
MaxRemMsgs == 2
MaxRemHandlers == 1
MaxRemTicks == 1
MaxMixMsgs == 2
MaxLiveMsgs == 1
MaxBindings == 2
MaxRoleEvents == 3
MaxPollVotes == 2
MaxModCmds == 3
MaxOpenEvents == 3
MaxLvlMsgs == 3
MaxReactMsgs == 2

Slots == 1..MaxHandlers

\* ------------------------------------------------------------- identities
UserIds == {1, 2}
BotId == 99
ChannelIds == {10, 11}

\* ------------------------------------------------------------- python dict
Get(map, key, default) == IF key \in DOMAIN map THEN map[key] ELSE default

Put(map, key, val) ==
    [k \in (DOMAIN map) \cup {key} |-> IF k = key THEN val ELSE map[k]]

Del(map, key) == [k \in (DOMAIN map) \ {key} |-> map[k]]

EmptyDict == [k \in {} |-> 0]

\* ------------------------------------------------------------- python str
\* A str is a sequence of one-character strings.
UPPER == <<"A","B","C","D","E","F","G","H","I","J","K","L","M",
           "N","O","P","Q","R","S","T","U","V","W","X","Y","Z">>
LOWER == <<"a","b","c","d","e","f","g","h","i","j","k","l","m",
           "n","o","p","q","r","s","t","u","v","w","x","y","z">>

LowerChar(c) ==
    IF \E i \in 1..Len(UPPER) : UPPER[i] = c
    THEN LOWER[CHOOSE i \in 1..Len(UPPER) : UPPER[i] = c]
    ELSE c

\* str.lower()
PyLower(s) == [i \in 1..Len(s) |-> LowerChar(s[i])]

Whitespace == {" ", "\t", "\n"}

RECURSIVE LStrip(_)
LStrip(s) == IF s # <<>> /\ Head(s) \in Whitespace THEN LStrip(Tail(s)) ELSE s

RECURSIVE RStrip(_)
RStrip(s) ==
    IF s # <<>> /\ s[Len(s)] \in Whitespace
    THEN RStrip(SubSeq(s, 1, Len(s) - 1))
    ELSE s

\* str.strip()
PyStrip(s) == RStrip(LStrip(s))

\* kw in s
Contains(s, kw) ==
    \E i \in 0..(Len(s) - Len(kw)) : SubSeq(s, i + 1, i + Len(kw)) = kw

Digits == <<"0","1","2","3","4","5","6","7","8","9">>
IsDigit(c) == \E i \in 1..10 : Digits[i] = c
DigitVal(c) == (CHOOSE i \in 1..10 : Digits[i] = c) - 1

\* The digits part of an int() literal: digits, single underscores between them.
IsIntBody(b) ==
    /\ b # <<>>
    /\ \A i \in 1..Len(b) : IsDigit(b[i]) \/ b[i] = "_"
    /\ IsDigit(b[1]) /\ IsDigit(b[Len(b)])
    /\ \A i \in 1..(Len(b) - 1) : ~(b[i] = "_" /\ b[i + 1] = "_")

RECURSIVE IntBodyVal(_)
IntBodyVal(b) ==
    IF b = <<>> THEN 0
    ELSE LET c == b[Len(b)]
             rest == SubSeq(b, 1, Len(b) - 1)
         IN IF c = "_" THEN IntBodyVal(rest)
            ELSE 10 * IntBodyVal(rest) + DigitVal(c)

\* int(s) of a str: surrounding whitespace is dropped, then an optional sign,
\* then the digits.  [ok |-> FALSE] stands for ValueError.
PyInt(s) ==
    LET t == PyStrip(s)
        signed == t # <<>> /\ t[1] \in {"+", "-"}
        body == IF signed THEN Tail(t) ELSE t
    IN IF IsIntBody(body)
       THEN [ok |-> TRUE,
             val |-> IF signed /\ t[1] = "-" THEN 0 - IntBodyVal(body)
                     ELSE IntBodyVal(body)]
       ELSE [ok |-> FALSE, val |-> 0]

\* int(x ** 0.5) for x >= 0
IntSqrt(x) == CHOOSE k \in 0..x : k * k <= x /\ (k + 1) * (k + 1) > x

\* ------------------------------------------------------------------ store
NewUserRow == [coins |-> 0, xp |-> 0, level |-> 0, last_daily |-> 0]

\* A plausible slip: INSERT OR REPLACE, which resets an existing row.
ensure_user_replace(U, user_id) == Put(U, user_id, NewUserRow)

\* INSERT OR IGNORE INTO users ...
ensure_user(U, user_id) ==
    IF user_id \in DOMAIN U THEN U ELSE Put(U, user_id, NewUserRow)

\* A plausible slip: the level computed from a halved xp.
new_level_half(xp) == IntSqrt(xp \div 2)

\* new_level = int((xp ** 0.5))
new_level_of(xp) == IntSqrt(xp)

\* A plausible slip: the level is returned whether it was raised or not.
add_xp_returns_level(U, user_id, amount) ==
    LET U1 == ensure_user(U, user_id)
        U2 == [U1 EXCEPT ![user_id].xp = @ + amount]
        new_level == new_level_of(U2[user_id].xp)
    IN IF new_level > U2[user_id].level
       THEN [users |-> [U2 EXCEPT ![user_id].level = new_level], ret |-> new_level]
       ELSE [users |-> U2, ret |-> new_level]

\* add_xp: the table afterwards and the value returned (0 for None).
add_xp(U, user_id, amount) ==
    LET U1 == ensure_user(U, user_id)
        U2 == [U1 EXCEPT ![user_id].xp = @ + amount]
        xp == U2[user_id].xp
        lvl == U2[user_id].level
        new_level == new_level_of(xp)
    IN IF new_level > lvl
       THEN [users |-> [U2 EXCEPT ![user_id].level = new_level], ret |-> new_level]
       ELSE [users |-> U2, ret |-> 0]

\* change_coins: the table afterwards (the callers drop the returned balance).
change_coins(U, user_id, delta) ==
    LET U1 == ensure_user(U, user_id)
    IN [U1 EXCEPT ![user_id].coins = @ + delta]

\* schedule_reminder: INSERT INTO reminders, created_at = int(time.time())
schedule_reminder(R, id, user_id, channel_id, remind_at, now) ==
    R \cup {[id |-> id, user_id |-> user_id, channel_id |-> channel_id,
             remind_at |-> remind_at, created_at |-> now]}

\* ------------------------------------------------------- program constants
DAY == 86400

S_paris == <<"p","a","r","i","s">>
S_mars == <<"m","a","r","s">>
S_shakespeare == <<"w","i","l","l","i","a","m"," ",
                   "s","h","a","k","e","s","p","e","a","r","e">>
S_81 == <<"8","1">>

\* the "a" of each question
TRIVIA_QUESTIONS == <<S_paris, S_mars, S_shakespeare, S_81>>

\* {"s":1, "m":60, "h":3600, "d":86400}.get(unit), 0 for None
UnitSeconds(unit) ==
    CASE unit = "s" -> 1
      [] unit = "m" -> 60
      [] unit = "h" -> 3600
      [] unit = "d" -> 86400
      [] OTHER -> 0

\* The settings as the environment leaves them unset.
DefaultConfig ==
    [AUTO_REACT_CHANNEL_IDS |-> {},
     AUTO_REACT_EMOJIS |-> <<"thumbsup", "robot", "fire">>,
     AUTO_REACT_KEYWORDS |-> {},
     AUTO_REACT_COOLDOWN |-> 10,
     AUTO_REPLY_CHANNEL_IDS |-> {},
     AUTO_REPLY_KEYWORDS |-> {},
     AUTO_REPLY_CHANCE |-> 15,
     AUTO_REPLY_COOLDOWN |-> 30]

\* ---------------------------------------------------------------- frames
NoCmd == [name |-> "none", member |-> 0, amount |-> 0, when |-> <<>>]

IdleTask ==
    [pc |-> "idle", author |-> 0, bot |-> FALSE, channel |-> 0,
     content |-> <<>>, cmd |-> NoCmd, now |-> 0, lvl_up |-> 0, i |-> 0,
     tried |-> <<>>, outcomes |-> <<>>, roll |-> 0, result |-> "", log |-> <<>>]

\* wake_at: the time before which asyncio.sleep(10) does not return
IdleWorker == [pc |-> "sleep", now |-> 0, rows |-> <<>>, i |-> 0, wake_at |-> 0]

\* The whole state as one record, for the operators that model code.
Cur ==
    [users |-> users, reminders |-> reminders,
     next_reminder_id |-> next_reminder_id,
     active_trivia |-> active_trivia, trivia_scores |-> trivia_scores,
     last_react_time |-> last_react_time, last_reply_time |-> last_reply_time,
     config |-> config, clock |-> clock,
     live_channels |-> live_channels, task |-> task, worker |-> worker,
     n_msgs |-> n_msgs, n_ticks |-> n_ticks, closed |-> closed,
     reaction_roles |-> reaction_roles, guild |-> guild, rtask |-> rtask,
     poll |-> poll, infractions |-> infractions, mtask |-> mtask, hist |-> hist]

Commit(s0) ==
    \E s \in {s0} :
        /\ users' = s.users
        /\ reminders' = s.reminders
        /\ next_reminder_id' = s.next_reminder_id
        /\ active_trivia' = s.active_trivia
        /\ trivia_scores' = s.trivia_scores
        /\ last_react_time' = s.last_react_time
        /\ last_reply_time' = s.last_reply_time
        /\ config' = s.config
        /\ clock' = s.clock
        /\ live_channels' = s.live_channels
        /\ task' = s.task
        /\ worker' = s.worker
        /\ n_msgs' = s.n_msgs
        /\ n_ticks' = s.n_ticks
        /\ closed' = s.closed
        /\ reaction_roles' = s.reaction_roles
        /\ guild' = s.guild
        /\ rtask' = s.rtask
        /\ poll' = s.poll
        /\ infractions' = s.infractions
        /\ mtask' = s.mtask
        /\ hist' = s.hist

\* The frame suspends at the await named p.
Goto(s, h, p) == [s EXCEPT !.task[h].pc = p]

\* The coroutine returns: its frame is gone; the history keeps the frame of
\* the steps of the handler that ended last.
End(s, h) ==
    [s EXCEPT !.hist.last_done =
                  [s.task[h] EXCEPT !.pc = "done", !.cmd = NoCmd, !.i = 0,
                                    !.lvl_up = 0, !.now = 0, !.result = ""],
              !.task[h] = IdleTask]

Log(s, h, e) == [s EXCEPT !.task[h].log = Append(@, e)]

Result(s, h, r) == [s EXCEPT !.task[h].result = r]

\* -------------------------------------------------------- prefix commands
\* Each command is the code of its callback up to its first await, which is
\* the send of its reply: the frame suspends at "cmd_send".  An exception a
\* callback raises is taken by the command framework and ends the dispatch.

\* trivia_cmd: q = random.choice(TRIVIA_QUESTIONS); active_trivia[channel] = ...
cmd_trivia(s, h, rnd) ==
    LET t == s.task[h]
        q == TRIVIA_QUESTIONS[rnd.q]
        s1 == [s EXCEPT !.active_trivia =
                            Put(@, t.channel, [answer |-> q, asker |-> t.author]),
                        !.hist.session_incs[t.channel] = 0]
    IN Goto(Result(s1, h, "trivia_started"), h, "cmd_send")

\* A plausible slip: the amount is not checked.
give_rejects_amount_never(amount) == FALSE

\* if amount <= 0
give_rejects_amount(amount) == amount <= 0

\* if row["coins"] < amount
give_not_enough(coins, amount) == coins < amount

\* A plausible slip: both updates on the sender's row.
give_transfer_same_row(U, sender, member, amount) ==
    change_coins(change_coins(U, sender, 0 - amount), sender, amount)

\* change_coins(ctx.author.id, -amount); change_coins(member.id, amount)
give_transfer(U, sender, member, amount) ==
    change_coins(change_coins(U, sender, 0 - amount), member, amount)

\* cmd_give
cmd_give(s, h, rnd) ==
    LET t == s.task[h]
        amount == t.cmd.amount
        a == t.author
        m == t.cmd.member
    IN IF give_rejects_amount(amount)
       THEN Goto(Result(s, h, "amount_rejected"), h, "cmd_send")
       ELSE IF ~rnd.store_ok \/ a \notin DOMAIN s.users
       THEN End(Result(s, h, "error"), h)
       ELSE IF give_not_enough(s.users[a].coins, amount)
       THEN Goto(Result(s, h, "not_enough"), h, "cmd_send")
       ELSE LET A1 == [s.hist.coins_applied EXCEPT ![a] = @ - amount]
                A2 == [A1 EXCEPT ![m] = @ + amount]
                s1 == [s EXCEPT !.users = give_transfer(@, a, m, amount),
                                !.hist.coins_applied = A2]
            IN Goto(Result(s1, h, "gave"), h, "cmd_send")

\* A plausible slip: the window compared with the wrong sign.
daily_too_early_flipped(now, last) == last - now >= DAY

\* if now - last < 24*3600
daily_too_early(now, last) == now - last < DAY

\* A plausible slip: last_daily is not written.
daily_stamp_skip(U, user_id, now) == U

\* UPDATE users SET last_daily = ? WHERE user_id = ?
daily_stamp(U, user_id, now) == [U EXCEPT ![user_id].last_daily = now]

\* cmd_daily
cmd_daily(s, h, rnd) ==
    LET t == s.task[h]
        a == t.author
    IN IF ~rnd.store_ok
       THEN End(Result(s, h, "error"), h)
       ELSE LET U1 == ensure_user(s.users, a)
                now == s.clock
                last == U1[a].last_daily
            IN IF daily_too_early(now, last)
               THEN Goto(Result([s EXCEPT !.users = U1], h, "daily_rejected"),
                         h, "cmd_send")
               ELSE LET U2 == change_coins(U1, a, rnd.reward)
                        U3 == daily_stamp(U2, a, now)
                        s1 == [s EXCEPT !.users = U3,
                                        !.hist.coins_applied[a] = @ + rnd.reward,
                                        !.hist.daily_claims[a] = Append(@, now)]
                    IN Goto(Result(s1, h, "daily_ok"), h, "cmd_send")

\* The try block of cmd_remindme: [ok |-> FALSE] stands for the except branch.
parse_when(when) ==
    IF when = <<>>
    THEN [ok |-> FALSE, seconds |-> 0]
    ELSE LET unit == when[Len(when)]
             num == PyInt(SubSeq(when, 1, Len(when) - 1))
             mult == UnitSeconds(unit)
         IN IF ~num.ok \/ mult = 0
            THEN [ok |-> FALSE, seconds |-> 0]
            ELSE [ok |-> TRUE, seconds |-> num.val * mult]

\* cmd_remindme
cmd_remindme(s, h, rnd) ==
    LET t == s.task[h]
        p == parse_when(t.cmd.when)
    IN IF ~p.ok
       THEN Goto(Result(s, h, "invalid"), h, "cmd_send")
       ELSE IF ~rnd.store_ok
       THEN End(Result(s, h, "error"), h)
       ELSE LET remind_at == s.clock + p.seconds
                s1 == [s EXCEPT !.reminders =
                                    schedule_reminder(@, s.next_reminder_id, t.author,
                                                      t.channel, remind_at, s.clock),
                                !.next_reminder_id = @ + 1]
            IN Goto(Result(s1, h, "reminder_set"), h, "cmd_send")

\* ------------------------------------------------------------- on_message
\* bot.process_commands(message): the command the message names, if any.
SegDispatch(s, h, rnd) ==
    LET s1 == Log(s, h, "dispatch")
        name == s.task[h].cmd.name
    IN CASE name = "trivia" -> cmd_trivia(s1, h, rnd)
         [] name = "give" -> cmd_give(s1, h, rnd)
         [] name = "daily" -> cmd_daily(s1, h, rnd)
         [] name = "remindme" -> cmd_remindme(s1, h, rnd)
         [] OTHER -> End(s1, h)

\* A plausible slip: the keyword filter is left out.
Qualifies_any_text(channel_ids, keywords, t) ==
    /\ channel_ids # {}
    /\ t.channel \in channel_ids

\* The channel and keyword conditions of auto-react and of auto-reply.
Qualifies(channel_ids, keywords, t) ==
    /\ channel_ids # {}
    /\ t.channel \in channel_ids
    /\ \/ keywords = {}
       \/ \E kw \in keywords : Contains(PyLower(t.content), kw)

\* A plausible slip: the cooldown is never looked at.
cooldown_ignored(now, last, cooldown) == TRUE

\* if now - _last_..._time.get(key, 0) >= COOLDOWN
cooldown_over(now, last, cooldown) == now - last >= cooldown

Trig(key, now) == [key |-> key, now |-> now]

\* The auto-reply block and what follows it.
SegReply(s0, h, rnd) ==
    LET s == Log(s0, h, "auto_reply")
        t == s.task[h]
        c == s.config
        key == <<t.author, t.channel>>
    IN IF Qualifies(c.AUTO_REPLY_CHANNEL_IDS, c.AUTO_REPLY_KEYWORDS, t)
       THEN IF cooldown_over(t.now, Get(s.last_reply_time, key, 0),
                             c.AUTO_REPLY_COOLDOWN)
            THEN LET s1 == [s EXCEPT !.task[h].roll = rnd.roll]
                 IN IF rnd.roll <= c.AUTO_REPLY_CHANCE
                    THEN Goto(Log([s1 EXCEPT
                                      !.last_reply_time = Put(@, key, t.now),
                                      !.hist.reply_trigs = Append(@, Trig(key, t.now))],
                                  h, "reply"),
                              h, "reply_send")
                    ELSE SegDispatch(s1, h, rnd)
            ELSE SegDispatch(Log(s, h, "reply_cooldown"), h, rnd)
       ELSE SegDispatch(s, h, rnd)

\* now = time.time(), the auto-react block and what follows it.
SegAuto(s, h, rnd) ==
    LET s0 == Log([s EXCEPT !.task[h].now = s.clock], h, "auto_react")
        t == s0.task[h]
        c == s.config
        key == <<t.author, t.channel>>
    IN IF Qualifies(c.AUTO_REACT_CHANNEL_IDS, c.AUTO_REACT_KEYWORDS, t)
       THEN IF cooldown_over(t.now, Get(s.last_react_time, key, 0),
                             c.AUTO_REACT_COOLDOWN)
            THEN LET s1 == Log([s0 EXCEPT !.last_react_time = Put(@, key, t.now),
                                          !.hist.react_trigs = Append(@, Trig(key, t.now))],
                               h, "react")
                 IN IF c.AUTO_REACT_EMOJIS = <<>>
                    THEN SegReply(s1, h, rnd)
                    ELSE Goto([s1 EXCEPT !.task[h].i = 1, !.task[h].tried = <<1>>],
                              h, "react_add")
            ELSE SegReply(Log(s0, h, "react_cooldown"), h, rnd)
       ELSE SegReply(s0, h, rnd)

\* A plausible slip: the content is compared as it was typed.
answer_matches_exact(content, answer) == content = answer

\* if message.content.strip().lower() == answer
answer_matches(content, answer) == PyLower(PyStrip(content)) = answer

\* The trivia block and what follows it.
SegTrivia(s0, h, rnd) ==
    LET s == Log(s0, h, "trivia")
        t == s.task[h]
    IN IF /\ t.channel \in DOMAIN s.active_trivia
          /\ answer_matches(t.content, s.active_trivia[t.channel].answer)
       THEN LET s1 == [s EXCEPT !.trivia_scores =
                                    Put(@, t.author, Get(@, t.author, 0) + 1),
                                !.hist.session_incs[t.channel] = @ + 1]
            IN Goto(Log(s1, h, "score"), h, "triv_send")
       ELSE SegAuto(s, h, rnd)

\* A plausible slip: no try around the XP block, so its exception ends the
\* handler.
SegXp_uncaught(s, h, rnd) ==
    LET t == s.task[h]
    IN IF ~rnd.store_ok
       THEN End(Log(s, h, "xp_error"), h)
       ELSE LET r == add_xp(s.users, t.author, rnd.xp)
                s1 == [s EXCEPT !.users = r.users,
                                !.hist.xp_applied[t.author] = @ + rnd.xp,
                                !.task[h].lvl_up = r.ret]
            IN IF r.ret # 0
               THEN Goto(Log(s1, h, "xp"), h, "lvl_send")
               ELSE SegTrivia(Log(s1, h, "xp"), h, rnd)

\* The XP block and what follows it.
SegXp(s, h, rnd) ==
    LET t == s.task[h]
    IN IF ~rnd.store_ok
       THEN SegTrivia(Log(s, h, "xp_error"), h, rnd)
       ELSE LET r == add_xp(s.users, t.author, rnd.xp)
                s1 == [s EXCEPT !.users = r.users,
                                !.hist.xp_applied[t.author] = @ + rnd.xp,
                                !.task[h].lvl_up = r.ret]
            IN IF r.ret # 0
               THEN Goto(Log(s1, h, "xp"), h, "lvl_send")
               ELSE SegTrivia(Log(s1, h, "xp"), h, rnd)

\* A plausible slip: the test of message.author.bot is left out.
OnMessage_bots_too(s, h, msg, rnd) ==
    LET t0 == [IdleTask EXCEPT !.author = msg.author, !.bot = msg.bot,
                               !.channel = msg.channel, !.content = msg.content,
                               !.cmd = msg.cmd]
    IN SegXp([s EXCEPT !.task[h] = t0, !.n_msgs = @ + 1], h, rnd)

\* on_message, from its start to its first await
OnMessage(s, h, msg, rnd) ==
    LET t0 == [IdleTask EXCEPT !.author = msg.author, !.bot = msg.bot,
                               !.channel = msg.channel, !.content = msg.content,
                               !.cmd = msg.cmd]
        s0 == [s EXCEPT !.task[h] = t0, !.n_msgs = @ + 1]
    IN IF msg.bot THEN End(s0, h) ELSE SegXp(s0, h, rnd)

\* The next emoji of try_add_reactions, or the end of its loop.
ReactNext(s, h, rnd) ==
    LET t == s.task[h]
    IN IF t.i < Len(s.config.AUTO_REACT_EMOJIS)
       THEN Goto([s EXCEPT !.task[h].i = @ + 1,
                           !.task[h].tried = Append(@, t.i + 1)], h, "react_add")
       ELSE SegReply(s, h, rnd)

\* -------------------------------------------------------- reminders_worker
RECURSIVE SortById(_)
SortById(R) ==
    IF R = {} THEN <<>>
    ELSE LET r == CHOOSE x \in R : \A y \in R : x.id <= y.id
         IN <<r>> \o SortById(R \ {r})

\* A plausible slip: the scan has no WHERE clause.
DueRows_all(R, now) == SortById(R)

\* SELECT ... FROM reminders WHERE remind_at <= ?   (in rowid order)
DueRows(R, now) == SortById({r \in R : r.remind_at <= now})

\* A plausible slip: the DELETE in a finally clause, run whatever the send did.
worker_after_send_finally(R, id, sent, del_ok) ==
    IF del_ok THEN {r \in R : r.id # id} ELSE R

\* The rest of the inner try block once the send is over: the DELETE and the
\* commit run only if the send did not raise, and may raise themselves.
worker_after_send(R, id, sent, del_ok) ==
    IF sent /\ del_ok THEN {r \in R : r.id # id} ELSE R

\* The history counts the messages sent for a reminder up to 2.
Min2(n) == IF n > 2 THEN 2 ELSE n

\* The end of one pass of the inner loop for the row at worker.i.
WorkerRowDone(s, sent, del_ok, how) ==
    LET id == s.worker.rows[s.worker.i].id
    IN [s EXCEPT !.reminders = worker_after_send(@, id, sent, del_ok),
                 !.hist.outcome = Put(@, id, IF ~sent THEN "send_failed"
                                            ELSE IF ~del_ok THEN "delete_failed"
                                            ELSE how),
                 !.hist.sent = IF sent /\ how = "sent"
                               THEN Put(@, id, Min2(Get(@, id, 0) + 1))
                               ELSE @,
                 !.worker.i = @ + 1]

\* await asyncio.sleep(10)
WorkerSleep(s) == [s EXCEPT !.worker = [IdleWorker EXCEPT !.wake_at = s.clock + 10]]

\* for r in rows: up to the next await, or to the sleep after the loop.
RECURSIVE WorkerLoop(_, _)
WorkerLoop(s, rnd) ==
    LET w == s.worker
    IN IF w.i > Len(w.rows)
       THEN WorkerSleep(s)
       ELSE IF w.rows[w.i].channel_id \in s.live_channels
       THEN [s EXCEPT !.worker.pc = "send"]
       ELSE WorkerLoop(WorkerRowDone(s, TRUE, rnd.store_ok, "no_channel"), rnd)

\* A plausible slip: no try around the body of the loop, so an error of the
\* scan ends the task.
WorkerScan_fatal(s, rnd) ==
    IF s.closed \/ ~rnd.store_ok
    THEN [s EXCEPT !.worker = [IdleWorker EXCEPT !.pc = "exit"],
                   !.hist.scan_failed = @ \/ ~s.closed]
    ELSE WorkerLoop([s EXCEPT !.worker.now = s.clock,
                              !.worker.rows = DueRows(s.reminders, s.clock),
                              !.worker.i = 1], rnd)

\* One iteration of the while loop from its top: the scan and what follows.
WorkerScan(s, rnd) ==
    IF s.closed
    THEN [s EXCEPT !.worker = [IdleWorker EXCEPT !.pc = "exit"]]
    ELSE IF ~rnd.store_ok
    THEN WorkerSleep([s EXCEPT !.hist.scan_failed = TRUE])
    ELSE WorkerLoop([s EXCEPT !.worker.now = s.clock,
                              !.worker.rows = DueRows(s.reminders, s.clock),
                              !.worker.i = 1], rnd)

\* ---------------------------------------------------------- reaction roles
GuildId == 1
RoleIds == {7, 8}
Members == UserIds \cup {BotId}

\* The guild at the start: both roles exist, everybody is in the member cache,
\* and user 2 already holds role 7.
InitGuild ==
    [roles |-> RoleIds, members |-> Members,
     member_roles |-> [u \in Members |-> IF u = 2 THEN {7} ELSE {}]]

IdleRTask ==
    [pc |-> "idle", kind |-> "", user |-> 0, message |-> 0, emoji |-> "",
     matched |-> FALSE, role |-> 0, bound |-> 0, resolving |-> FALSE,
     before |-> {}]

\* What the history keeps of the reaction event handled last: the event,
\* the role bound to its triple when it arrived (0 for none) and whether that
\* role and the member resolved then, the role the handler found, the
\* add-role or remove-role actions it made and whether the last went through,
\* the roles of the member before and after, and the members whose roles the
\* handler changed.
NoEvent ==
    [kind |-> "", user |-> 0, message |-> 0, emoji |-> "", bound |-> 0,
     resolving |-> FALSE, matched |-> FALSE, role |-> 0, calls |-> 0,
     ok |-> FALSE, before |-> {}, after |-> {}, touched |-> {}]

\* What the history keeps of a reaction-add event and the reaction-remove
\* event of the same member, message and emoji that follows it.
NoPair ==
    [stage |-> "none", user |-> 0, message |-> 0, emoji |-> "", before |-> {},
     mid |-> {}, after |-> {}, role |-> 0, removed |-> FALSE]

RawEvent(kind, user, message, emoji) ==
    [kind |-> kind, user |-> user, message |-> message, emoji |-> emoji]

\* INSERT INTO reaction_roles ... (no uniqueness constraint on the triple)
Binding(m, e, r) ==
    [guild_id |-> GuildId, message_id |-> m, emoji |-> e, role_id |-> r]

cmd_createreactionrole(s, m, e, r) ==
    [s EXCEPT !.reaction_roles = Append(@, Binding(m, e, r))]

\* SELECT role_id ... WHERE guild_id = ? AND message_id = ? AND emoji = ?  and
\* fetchone(): the role of the first row that matches, 0 for no row.
first_binding(table, g, m, e) ==
    LET I == {i \in DOMAIN table :
                  /\ table[i].guild_id = g
                  /\ table[i].message_id = m
                  /\ table[i].emoji = e}
    IN IF I = {} THEN 0
       ELSE table[CHOOSE i \in I : \A j \in I : i <= j].role_id

\* A plausible slip: the bot's own reactions are handled like anybody's.
is_own_reaction_never(user) == FALSE

\* if payload.user_id == bot.user.id
is_own_reaction(user) == user = BotId

add_effect(roles, role) == roles \cup {role}

\* A plausible slip: the remove handler does not take the role away.
remove_effect_keep(roles, role) == roles

remove_effect(roles, role) == roles \ {role}

\* The role of the binding registered first for the message and the emoji,
\* 0 if there is none.
EarliestRole(table, m, e) ==
    IF \E i \in DOMAIN table : table[i].message_id = m /\ table[i].emoji = e
    THEN LET i == CHOOSE k \in DOMAIN table :
                      /\ table[k].message_id = m /\ table[k].emoji = e
                      /\ \A j \in 1..(k - 1) :
                             ~(table[j].message_id = m /\ table[j].emoji = e)
         IN table[i].role_id
    ELSE 0

PairActive(p) == p.stage \in {"adding", "added", "removing"}

\* A handler of an event of user u is in flight.
Busy(s, u) == \E g \in Slots : s.rtask[g].pc # "idle" /\ s.rtask[g].user = u

\* The pair in the history when the event ev arrives.
PairOnArrival(s, ev) ==
    LET p == s.hist.pair
        u == ev.user
    IN IF PairActive(p) /\ p.user # u THEN p
       ELSE IF ev.kind = "add"
       THEN IF Busy(s, u) THEN NoPair
            ELSE [NoPair EXCEPT !.stage = "adding", !.user = u,
                                !.message = ev.message, !.emoji = ev.emoji,
                                !.before = s.guild.member_roles[u]]
       ELSE IF ~PairActive(p) THEN p
       ELSE IF /\ p.stage = "added"
               /\ p.message = ev.message
               /\ p.emoji = ev.emoji
               /\ ~Busy(s, u)
       THEN [p EXCEPT !.stage = "removing"]
       ELSE NoPair

\* A raw reaction handler starts in frame h.
RStart(s, h, ev) ==
    [s EXCEPT !.rtask[h] =
                  [IdleRTask EXCEPT
                      !.pc = "run", !.kind = ev.kind, !.user = ev.user,
                      !.message = ev.message, !.emoji = ev.emoji,
                      !.bound = EarliestRole(s.reaction_roles, ev.message, ev.emoji),
                      !.resolving =
                          /\ ev.user \in s.guild.members
                          /\ EarliestRole(s.reaction_roles, ev.message, ev.emoji)
                                 \in s.guild.roles,
                      !.before = s.guild.member_roles[ev.user]],
              !.n_msgs = @ + 1,
              !.hist.pair = PairOnArrival(s, ev)]

\* The handler in frame h returns, after calls add-role or remove-role
\* actions, the last of which went through or not.
REnd(s, h, calls, ok, touched) ==
    LET t == s.rtask[h]
        p == s.hist.pair
        after == s.guild.member_roles[t.user]
    IN [s EXCEPT
          !.rtask[h] = IdleRTask,
          !.hist.last_ev =
              [kind |-> t.kind, user |-> t.user, message |-> t.message,
               emoji |-> t.emoji, bound |-> t.bound,
               resolving |-> t.resolving, matched |-> t.matched, role |-> t.role,
               calls |-> calls, ok |-> ok, before |-> t.before,
               after |-> after, touched |-> touched],
          !.hist.pair =
              IF p.user = t.user /\ p.stage = "adding" /\ t.kind = "add"
              THEN [p EXCEPT !.stage = "added", !.mid = after]
              ELSE IF p.user = t.user /\ p.stage = "removing" /\ t.kind = "remove"
              THEN [p EXCEPT !.stage = "done", !.after = after,
                             !.role = t.role, !.removed = (calls = 1 /\ ok)]
              ELSE p]

\* From the SELECT to the await of add_roles / remove_roles, or to the end.
RLookup(s, h, await_pc) ==
    LET t == s.rtask[h]
        role == first_binding(s.reaction_roles, GuildId, t.message, t.emoji)
    IN IF role = 0
       THEN REnd(s, h, 0, FALSE, {})
       ELSE LET s1 == [s EXCEPT !.rtask[h].matched = TRUE,
                                !.rtask[h].role = role]
            IN IF t.user \in s.guild.members /\ role \in s.guild.roles
               THEN [s1 EXCEPT !.rtask[h].pc = await_pc]
               ELSE REnd(s1, h, 0, FALSE, {})

on_raw_reaction_add(s0, h, ev) ==
    LET s == RStart(s0, h, ev)
    IN IF is_own_reaction(ev.user)
       THEN REnd(s, h, 0, FALSE, {})
       ELSE RLookup(s, h, "add_roles")

on_raw_reaction_remove(s0, h, ev) == RLookup(RStart(s0, h, ev), h, "remove_roles")

\* await member.add_roles(role) / member.remove_roles(role) is over.
RolesDone(s, h, ok, roles_after) ==
    LET t == s.rtask[h]
        s1 == IF ok THEN [s EXCEPT !.guild.member_roles[t.user] = roles_after]
              ELSE s
        touched == {u \in Members :
                        s1.guild.member_roles[u] # s.guild.member_roles[u]}
    IN REnd(s1, h, 1, ok, touched)

\* ------------------------------------------------------------------- poll
NUMBER_EMOJIS == <<"1", "2", "3", "4", "5">>

IdlePoll ==
    [pc |-> "idle", options |-> <<>>, i |-> 0, reactions |-> EmptyDict,
     votes |-> 0, attached |-> <<>>, failed |-> {}, fetched |-> EmptyDict,
     counts |-> <<>>, result |-> ""]

NonBlank(o) == o # <<>>

\* options = [o.strip() for o in opts.split(",") if o.strip()]
poll_options(parts) ==
    SelectSeq([i \in 1..Len(parts) |-> PyStrip(parts[i])], NonBlank)

\* if len(options) < 2 or len(options) > 5
options_rejected(n) == n < 2 \/ n > 5

\* A plausible slip: one is taken off whether the reaction is there or not.
tally_of_minus_one(reactions, emoji) == Get(reactions, emoji, 0) - 1

\* (react.count - 1) if react else 0
tally_of(reactions, emoji) ==
    IF emoji \in DOMAIN reactions THEN reactions[emoji] - 1 ELSE 0

PollEnd(s, r) == [s EXCEPT !.poll.pc = "done", !.poll.result = r]

\* poll_slash from its start to its first await.
poll_slash(s, parts) ==
    LET options == poll_options(parts)
        s1 == [s EXCEPT !.poll = [IdlePoll EXCEPT !.options = options]]
    IN IF options_rejected(Len(options))
       THEN [s1 EXCEPT !.poll.pc = "reject_send"]
       ELSE [s1 EXCEPT !.poll.pc = "respond"]

\* A plausible slip: time.sleep(duration), which does not give the loop back.
sleep_holds_loop_blocking(pc) == pc = "wait"

\* await asyncio.sleep(duration) suspends poll_slash and gives the loop back.
sleep_holds_loop(pc) == FALSE

\* for i in range(len(options)): up to the next await
PollLoop(s) ==
    IF s.poll.i <= Len(s.poll.options)
    THEN [s EXCEPT !.poll.pc = "add_reaction"]
    ELSE [s EXCEPT !.poll.pc = "wait"]

\* counts.append((options[i], (react.count - 1) if react else 0))
PollCounts(s) ==
    [s EXCEPT !.poll.fetched = s.poll.reactions,
              !.poll.counts = [i \in 1..Len(s.poll.options) |->
                                   tally_of(s.poll.reactions, NUMBER_EMOJIS[i])],
              !.poll.pc = "announce"]

\* ------------------------------------------------------------- moderation
IdleMTask ==
    [pc |-> "idle", kind |-> "", member |-> 0, mod |-> 0, acted |-> FALSE,
     logged |-> 0, result |-> ""]

\* What the history keeps of the moderation command that ended last: whether
\* its platform action went through, the rows it appended and how it ended.
NoMod == [pc |-> "idle", kind |-> "", member |-> 0, acted |-> FALSE,
          logged |-> 0, result |-> ""]

\* INSERT INTO infractions (..., created_at) VALUES (..., int(time.time()))
log_infraction(I, guild_id, user_id, mod_id, action, now) ==
    Append(I, [id |-> Len(I) + 1, guild_id |-> guild_id, user_id |-> user_id,
               mod_id |-> mod_id, action |-> action, created_at |-> now])

\* The callback of a moderation command starts in frame h.
MStart(s, h, kind, member, mod) ==
    [s EXCEPT !.mtask[h] = [IdleMTask EXCEPT !.pc = "run", !.kind = kind,
                                            !.member = member, !.mod = mod],
              !.n_msgs = @ + 1]

\* The callback returns, or raises to the command framework.
MEnd(s, h, r) ==
    LET t == s.mtask[h]
    IN [s EXCEPT !.mtask[h] = IdleMTask,
                 !.hist.last_mod =
                     [pc |-> "done", kind |-> t.kind, member |-> t.member,
                      acted |-> t.acted, logged |-> t.logged, result |-> r]]

\* The call of log_infraction in frame h, when its statements go through.
MLogged(s, h) ==
    LET t == s.mtask[h]
    IN [s EXCEPT !.infractions =
                     log_infraction(@, GuildId, t.member, t.mod, t.kind, s.clock),
                 !.mtask[h].logged = @ + 1]

\* cmd_kick up to await member.kick(reason=reason)
cmd_kick(s, h, member, mod) ==
    [MStart(s, h, "kick", member, mod) EXCEPT !.mtask[h].pc = "act"]

\* cmd_ban up to await member.ban(reason=reason)
cmd_ban(s, h, member, mod) ==
    [MStart(s, h, "ban", member, mod) EXCEPT !.mtask[h].pc = "act"]

\* cmd_warn up to await ctx.send: no try around log_infraction, so an sqlite
\* error ends the callback.
cmd_warn(s, h, member, mod, store_ok) ==
    LET s1 == MStart(s, h, "warn", member, mod)
    IN IF store_ok
       THEN [MLogged(s1, h) EXCEPT !.mtask[h].pc = "send"]
       ELSE MEnd(s1, h, "error")

\* member.kick / member.ban is over: on success the member is out of the
\* guild and log_infraction runs, up to await ctx.send of the confirmation;
\* an exception of either goes to the except branch and its ctx.send.
mod_after_action(s, h, ok, store_ok) ==
    LET t == s.mtask[h]
    IN IF ~ok
       THEN [s EXCEPT !.mtask[h].pc = "fail_send"]
       ELSE LET s1 == [s EXCEPT !.mtask[h].acted = TRUE,
                                !.guild.members = @ \ {t.member},
                                !.guild.member_roles[t.member] = {}]
            IN IF store_ok
               THEN [MLogged(s1, h) EXCEPT !.mtask[h].pc = "send"]
               ELSE [s1 EXCEPT !.mtask[h].pc = "fail_send"]

\* ctx.send of the confirmation is over: in cmd_kick and cmd_ban it is inside
\* the try, in cmd_warn it is not.
mod_after_send(s, h, ok) ==
    IF ok THEN MEnd(s, h, "replied")
    ELSE IF s.mtask[h].kind = "warn" THEN MEnd(s, h, "error")
    ELSE [s EXCEPT !.mtask[h].pc = "fail_send"]

\* ----------------------------------------------------------------- actions
Free(h) == task[h].pc = "idle"

\* The gateway delivers a message: on_message starts in the first free frame.
Receive(h, msg, rnd) ==
    /\ Free(h)
    /\ \A g \in Slots : g < h => ~Free(g)
    /\ n_msgs < MaxMsgs
    /\ msg.cmd.name = "remindme" => next_reminder_id <= MaxReminders
    /\ Commit(OnMessage(Cur, h, msg, rnd))

\* The level-up send returns or raises (the exception is passed over).
LvlSend(h, ok, rnd) ==
    /\ task[h].pc = "lvl_send"
    /\ Commit(SegTrivia(Log(Cur, h, IF ok THEN "lvl_sent" ELSE "lvl_failed"),
                        h, rnd))

\* A plausible slip: no return after the dispatch of the trivia branch, so the
\* handler runs on to the dispatch at its end.
TrivSend_no_return(h, ok, rnd) ==
    /\ task[h].pc = "triv_send"
    /\ LET ch == task[h].channel
       IN IF ok /\ ch \in DOMAIN active_trivia
          THEN Commit(SegAuto(
                   Log(Log([Cur EXCEPT !.active_trivia = Del(@, ch)], h, "cleared"),
                       h, "dispatch"),
                   h, rnd))
          ELSE Commit(SegAuto(Log(Cur, h, "trivia_error"), h, rnd))

\* The send of the trivia announcement returns or raises.
TrivSend(h, ok, rnd) ==
    /\ task[h].pc = "triv_send"
    /\ LET ch == task[h].channel
       IN IF ok /\ ch \in DOMAIN active_trivia
          THEN Commit(SegDispatch(
                   Log([Cur EXCEPT !.active_trivia = Del(@, ch)], h, "cleared"),
                   h, rnd))
          ELSE Commit(SegAuto(Log(Cur, h, "trivia_error"), h, rnd))

\* The outcome of message.add_reaction is noted in the frame.
Noted(s, h, outcome) == [s EXCEPT !.task[h].outcomes = Append(@, outcome)]

\* A plausible slip: no return in the Forbidden branch, so the loop goes on.
ReactAdd_no_return(h, outcome, rnd) ==
    /\ task[h].pc = "react_add"
    /\ CASE outcome = "ok" -> Commit(Goto(Noted(Cur, h, outcome), h, "react_sleep"))
         [] OTHER -> Commit(ReactNext(Log(Noted(Cur, h, outcome), h, "react_error"),
                                      h, rnd))

\* message.add_reaction returns, raises Forbidden or raises something else.
ReactAdd(h, outcome, rnd) ==
    /\ task[h].pc = "react_add"
    /\ CASE outcome = "ok" -> Commit(Goto(Noted(Cur, h, outcome), h, "react_sleep"))
         [] outcome = "forbidden" ->
                Commit(SegReply(Log(Noted(Cur, h, outcome), h, "react_error"),
                                h, rnd))
         [] OTHER -> Commit(ReactNext(Log(Noted(Cur, h, outcome), h, "react_error"),
                                      h, rnd))

\* asyncio.sleep(0.25) of try_add_reactions returns.
ReactSleep(h, rnd) ==
    /\ task[h].pc = "react_sleep"
    /\ Commit(ReactNext(Cur, h, rnd))

\* The send of try_send_auto_reply returns or raises (caught there).
ReplySend(h, ok, rnd) ==
    /\ task[h].pc = "reply_send"
    /\ Commit(SegDispatch(IF ok THEN Cur ELSE Log(Cur, h, "reply_error"), h, rnd))

\* The send of a command's reply returns or raises: the dispatch ends.
CmdSend(h, ok) ==
    /\ task[h].pc = "cmd_send"
    /\ Commit(End(Log(Cur, h, "cmd_replied"), h))

\* Time passes.
Tick(d) ==
    /\ n_ticks < MaxTicks
    /\ clock' = clock + d
    /\ n_ticks' = n_ticks + 1
    /\ UNCHANGED <<users, reminders, next_reminder_id, active_trivia,
                   trivia_scores, last_react_time, last_reply_time, config,
                   live_channels, task, worker, n_msgs, closed, hist,
                   reaction_roles, guild, rtask, poll,
                   infractions, mtask>>

\* asyncio.sleep(10) of reminders_worker returns: the next cycle runs.
WorkerWake(rnd) ==
    /\ worker.pc = "sleep"
    /\ clock >= worker.wake_at
    /\ Commit(WorkerScan(Cur, rnd))

\* The send of a reminder returns or raises.
WorkerSend(ok, rnd) ==
    /\ worker.pc = "send"
    /\ Commit(WorkerLoop(WorkerRowDone(Cur, ok, rnd.store_ok, "sent"), rnd))

\* The ten seconds of the worker's sleep are over, at a time the model's clock
\* does not count: the sleep returns, and what was due stays due.
SleepOver ==
    /\ worker.pc = "sleep"
    /\ clock < worker.wake_at
    /\ worker' = [worker EXCEPT !.wake_at = clock]
    /\ UNCHANGED <<users, reminders, next_reminder_id, active_trivia,
                   trivia_scores, last_react_time, last_reply_time, config,
                   clock, live_channels, task, n_msgs, n_ticks, closed, hist,
                   reaction_roles, guild, rtask, poll,
                   infractions, mtask>>

\* bot.close(): the gateway connection is closed, bot.is_closed() is true.
BotClose ==
    /\ ~closed
    /\ closed' = TRUE
    /\ UNCHANGED <<users, reminders, next_reminder_id, active_trivia,
                   trivia_scores, last_react_time, last_reply_time, config,
                   clock, live_channels, task, worker, n_msgs, n_ticks, hist,
                   reaction_roles, guild, rtask, poll,
                   infractions, mtask>>

\* A channel is deleted: bot.get_channel no longer resolves it.
ChannelGone(c) ==
    /\ c \in live_channels
    /\ live_channels' = live_channels \ {c}
    /\ UNCHANGED <<users, reminders, next_reminder_id, active_trivia,
                   trivia_scores, last_react_time, last_reply_time, config,
                   clock, task, worker, n_msgs, n_ticks, closed, hist,
                   reaction_roles, guild, rtask, poll,
                   infractions, mtask>>

\* A member with manage_roles runs createreactionrole: the row is inserted
\* before the first await of the command; the reaction the command then adds
\* comes back as a reaction-add event of the bot itself.
CreateReactionRole(m, e, r) ==
    /\ Len(reaction_roles) < MaxBindings
    /\ r \in guild.roles
    /\ Commit(cmd_createreactionrole(Cur, m, e, r))

\* The gateway delivers a raw reaction event: its handler starts in the
\* first free frame.
RawReactionAdd(h, u, m, e) ==
    /\ rtask[h].pc = "idle"
    /\ \A g \in Slots : g < h => rtask[g].pc # "idle"
    /\ n_msgs < MaxRoleEvents
    /\ Commit(on_raw_reaction_add(Cur, h, RawEvent("add", u, m, e)))

RawReactionRemove(h, u, m, e) ==
    /\ rtask[h].pc = "idle"
    /\ \A g \in Slots : g < h => rtask[g].pc # "idle"
    /\ n_msgs < MaxRoleEvents
    /\ Commit(on_raw_reaction_remove(Cur, h, RawEvent("remove", u, m, e)))

\* member.add_roles(role) returns or raises (the exception is passed over);
\* it cannot go through for a role or a member that is gone.
AddRolesDone(h, ok) ==
    /\ rtask[h].pc = "add_roles"
    /\ ok => rtask[h].role \in guild.roles /\ rtask[h].user \in guild.members
    /\ Commit(RolesDone(Cur, h, ok,
                        add_effect(guild.member_roles[rtask[h].user],
                                   rtask[h].role)))

RemoveRolesDone(h, ok) ==
    /\ rtask[h].pc = "remove_roles"
    /\ ok => rtask[h].role \in guild.roles /\ rtask[h].user \in guild.members
    /\ Commit(RolesDone(Cur, h, ok,
                        remove_effect(guild.member_roles[rtask[h].user],
                                      rtask[h].role)))

\* A role of the guild is deleted: nobody holds it any more.
RoleDeleted(r) ==
    /\ r \in guild.roles
    /\ Commit([Cur EXCEPT !.guild.roles = @ \ {r},
                          !.guild.member_roles = [u \in Members |-> @[u] \ {r}],
                          !.hist.pair = IF PairActive(@) THEN NoPair ELSE @])

\* A member leaves the guild.
MemberLeft(u) ==
    /\ u \in guild.members
    /\ Commit([Cur EXCEPT !.guild.members = @ \ {u},
                          !.guild.member_roles[u] = {},
                          !.hist.pair = IF PairActive(@) THEN NoPair ELSE @])

\* A member with the permission runs kick, ban or warn on a member of the
\* guild: the callback starts in the first free frame.
MFree(h) ==
    /\ mtask[h].pc = "idle"
    /\ \A g \in Slots : g < h => mtask[g].pc # "idle"
    /\ n_msgs < MaxModCmds

Kick(h, u, m) ==
    /\ MFree(h)
    /\ {u, m} \subseteq guild.members
    /\ Commit(cmd_kick(Cur, h, u, m))

Ban(h, u, m) ==
    /\ MFree(h)
    /\ {u, m} \subseteq guild.members
    /\ Commit(cmd_ban(Cur, h, u, m))

Warn(h, u, m, store_ok) ==
    /\ MFree(h)
    /\ {u, m} \subseteq guild.members
    /\ Commit(cmd_warn(Cur, h, u, m, store_ok))

\* member.kick / member.ban returns or raises; it cannot go through for a
\* member who is gone.
ModActionDone(h, ok, store_ok) ==
    /\ mtask[h].pc = "act"
    /\ ok => mtask[h].member \in guild.members
    /\ Commit(mod_after_action(Cur, h, ok, store_ok))

\* ctx.send of the confirmation returns or raises.
ModSent(h, ok) ==
    /\ mtask[h].pc = "send"
    /\ Commit(mod_after_send(Cur, h, ok))

\* ctx.send of "Kick failed: ..." / "Ban failed: ..." returns or raises.
ModFailSent(h, ok) ==
    /\ mtask[h].pc = "fail_send"
    /\ Commit(MEnd(Cur, h, IF ok THEN "failure_reported" ELSE "error"))

\* /poll is invoked.
PollStart(parts) ==
    /\ poll.pc = "idle"
    /\ Commit(poll_slash(Cur, parts))

\* The send of "Provide 2-5 comma-separated options." is over.
PollRejectSent ==
    /\ poll.pc = "reject_send"
    /\ Commit(PollEnd(Cur, "rejected"))

\* interaction.response.send_message(embed=embed) returns or raises.
PollRespond(ok) ==
    /\ poll.pc = "respond"
    /\ Commit(IF ok THEN [Cur EXCEPT !.poll.pc = "original"]
              ELSE PollEnd(Cur, "error"))

\* interaction.original_response() returns or raises.
PollOriginal(ok) ==
    /\ poll.pc = "original"
    /\ Commit(IF ok THEN PollLoop([Cur EXCEPT !.poll.i = 1])
              ELSE [Cur EXCEPT !.poll.pc = "followup"])

\* interaction.followup.send(embed=embed) returns or raises.
PollFollowup(ok) ==
    /\ poll.pc = "followup"
    /\ Commit(IF ok THEN PollLoop([Cur EXCEPT !.poll.i = 1])
              ELSE PollEnd(Cur, "error"))

\* sent.add_reaction(NUMBER_EMOJIS[i]) returns or raises (logged).
PollAddReaction(ok) ==
    /\ poll.pc = "add_reaction"
    /\ LET e == NUMBER_EMOJIS[poll.i]
       IN Commit(IF ok
                 THEN [Cur EXCEPT !.poll.reactions = Put(@, e, Get(@, e, 0) + 1),
                                  !.poll.attached = Append(@, e),
                                  !.poll.pc = "react_sleep"]
                 ELSE PollLoop([Cur EXCEPT !.poll.failed = @ \cup {poll.i},
                                           !.poll.i = @ + 1]))

\* asyncio.sleep(0.2) returns.
PollReactSleep ==
    /\ poll.pc = "react_sleep"
    /\ Commit(PollLoop([Cur EXCEPT !.poll.i = @ + 1]))

\* asyncio.sleep(duration) returns.
PollWait ==
    /\ poll.pc = "wait"
    /\ Commit([Cur EXCEPT !.poll.pc = "fetch"])

\* sent.channel.fetch_message(sent.id) returns or raises.
PollFetch(ok) ==
    /\ poll.pc = "fetch"
    /\ Commit(IF ok THEN PollCounts(Cur) ELSE PollEnd(Cur, "fetch_failed"))

\* The send of the results returns or raises.
PollAnnounce(ok) ==
    /\ poll.pc = "announce"
    /\ Commit(PollEnd(Cur, IF ok THEN "announced" ELSE "error"))

\* A user adds a reaction to the poll message.
Vote(e) ==
    /\ poll.pc \in {"original", "followup", "add_reaction", "react_sleep",
                    "wait", "fetch"}
    /\ poll.votes < MaxPollVotes
    /\ Commit([Cur EXCEPT !.poll.reactions = Put(@, e, Get(@, e, 0) + 1),
                          !.poll.votes = @ + 1])

\* ------------------------------------------------------------------- init
\* The process has started at T0 with an empty database and empty maps.
StartTime == 20 * DAY

InitHist ==
    [session_incs |-> [c \in ChannelIds |-> 0],
     xp_applied |-> [u \in UserIds |-> 0],
     coins_applied |-> [u \in UserIds |-> 0],
     daily_claims |-> [u \in UserIds |-> <<>>],
     outcome |-> EmptyDict,
     sent |-> EmptyDict,
     scan_failed |-> FALSE,
     react_trigs |-> <<>>,
     reply_trigs |-> <<>>,
     last_done |-> IdleTask,
     last_ev |-> NoEvent,
     pair |-> NoPair,
     last_mod |-> NoMod]

InitWith(cfg, U, H) ==
    /\ users = U
    /\ reminders = {}
    /\ next_reminder_id = 1
    /\ active_trivia = EmptyDict
    /\ trivia_scores = EmptyDict
    /\ last_react_time = EmptyDict
    /\ last_reply_time = EmptyDict
    /\ config = cfg
    /\ clock = StartTime
    /\ live_channels = ChannelIds
    /\ task = [h \in Slots |-> IdleTask]
    /\ worker = IdleWorker
    /\ n_msgs = 0
    /\ n_ticks = 0
    /\ closed = FALSE
    /\ reaction_roles = <<>>
    /\ guild = InitGuild
    /\ rtask = [h \in Slots |-> IdleRTask]
    /\ poll = IdlePoll
    /\ infractions = <<>>
    /\ mtask = [h \in Slots |-> IdleMTask]
    /\ hist = H

Msg(author, bot, channel, content, cmd) ==
    [author |-> author, bot |-> bot, channel |-> channel, content |-> content,
     cmd |-> cmd]

Text(author, channel, content) == Msg(author, FALSE, channel, content, NoCmd)

Cmd(author, channel, name, member, amount, when) ==
    Msg(author, FALSE, channel, <<"!">>,
        [name |-> name, member |-> member, amount |-> amount, when |-> when])

\* What one run of a handler draws: random.randint(1,3), the index of
\* random.choice(TRIVIA_QUESTIONS), random.randint(1,100), random.randint(50,150),
\* and whether the sqlite statements of the run succeed.
Draw(xp, q, roll, reward, store_ok) ==
    [xp |-> xp, q |-> q, roll |-> roll, reward |-> reward, store_ok |-> store_ok]

\* ------------------------------------------- Spec: messages and trivia

S_Mars_padded == <<" ", "M", "a", "r", "s", " ">>
S_hi == <<"h", "i">>

TriviaMsgs ==
    {Text(a, 10, x) : a \in UserIds, x \in {S_Mars_padded, S_hi}}
    \cup {Cmd(1, 10, "trivia", 0, 0, <<>>)}
    \cup {Msg(BotId, TRUE, 10, S_mars, NoCmd)}

\* The draws of a run that starts a handler, and of a run that resumes one.
TriviaDraws == {Draw(xp, q, 1, 50, ok) : xp \in {1, 3}, q \in {2, 4}, ok \in BOOLEAN}
TriviaResumeDraws == {Draw(1, q, 1, 50, TRUE) : q \in {2, 4}}

Init == InitWith(DefaultConfig, EmptyDict, InitHist)

Next ==
    \/ \E h \in Slots, m \in TriviaMsgs, r \in TriviaDraws : Receive(h, m, r)
    \/ \E h \in Slots, r \in TriviaResumeDraws : LvlSend(h, TRUE, r)
    \/ \E h \in Slots, ok \in BOOLEAN, r \in TriviaResumeDraws : TrivSend(h, ok, r)
    \/ \E h \in Slots, ok \in BOOLEAN : CmdSend(h, ok)

Spec == Init /\ [][Next]_vars

\* ------------------------------------------- SpecEcon: give and daily
GiveAmounts == {0 - 50, 0, 50}

EconMsgs ==
    {Cmd(1, 10, "daily", 0, 0, <<>>)}
    \cup {Cmd(1, 10, "give", m, n, <<>>) : m \in UserIds, n \in GiveAmounts}

\* a sample of random.randint(50, 150) with both ends
DailyRewards == {50, 150}

EconDraws ==
    {Draw(1, 1, 1, rw, TRUE) : rw \in DailyRewards}
EconResumeDraws == {Draw(1, 1, 1, rw, TRUE) : rw \in DailyRewards}

HalfDay == DAY \div 2

NextEcon ==
    \/ \E h \in Slots, m \in EconMsgs, r \in EconDraws : Receive(h, m, r)
    \/ \E h \in Slots, r \in EconResumeDraws : LvlSend(h, TRUE, r)
    \/ \E h \in Slots, ok \in BOOLEAN : CmdSend(h, ok)
    \/ Tick(HalfDay)

SpecEcon == Init /\ [][NextEcon]_vars

\* ------------------------------- SpecCool: auto-react and auto-reply
S_yo == <<"y", "o">>

\* Both features on in channel 10, auto-react for messages that hold "hi".
CoolConfig ==
    [DefaultConfig EXCEPT !.AUTO_REACT_CHANNEL_IDS = {10},
                          !.AUTO_REACT_EMOJIS = <<"thumbsup">>,
                          !.AUTO_REACT_KEYWORDS = {S_hi},
                          !.AUTO_REPLY_CHANNEL_IDS = {10}]

CoolMsgs ==
    {Text(1, 10, x) : x \in {<<"H", "i">>, S_yo}}
    \cup {Text(2, 10, S_hi), Text(1, 11, S_hi)}

\* random.randint(1, 100): a roll that passes the 15 percent and one that fails
CoolDraws == {Draw(1, 1, roll, 50, TRUE) : roll \in {15, 16}}

\* Both users have written before: their accounts stand at xp 10, level 3.
SeenUsers == [u \in UserIds |-> [NewUserRow EXCEPT !.xp = 10, !.level = 3]]

SeenHist == [InitHist EXCEPT !.xp_applied = [u \in UserIds |-> 10]]

InitCool == InitWith(CoolConfig, SeenUsers, SeenHist)

NextCool ==
    \/ \E h \in Slots, m \in CoolMsgs, r \in CoolDraws :
           n_msgs < MaxCoolMsgs /\ Receive(h, m, r)
    \/ \E h \in Slots, o \in {"ok", "forbidden"}, r \in CoolDraws :
           ReactAdd(h, o, r)
    \/ \E h \in Slots, r \in CoolDraws : ReactSleep(h, r)
    \/ \E h \in Slots, r \in CoolDraws : ReplySend(h, TRUE, r)
    \/ \E d \in {5, 25} : Tick(d)

SpecCool == InitCool /\ [][NextCool]_vars

\* --------------------- SpecMix: trivia answers where both features are on
\* Both features on in channel 10 for every message, one emoji.
MixConfig ==
    [DefaultConfig EXCEPT !.AUTO_REACT_CHANNEL_IDS = {10},
                          !.AUTO_REACT_EMOJIS = <<"thumbsup">>,
                          !.AUTO_REPLY_CHANNEL_IDS = {10}]

MixMsgs ==
    {Cmd(1, 10, "trivia", 0, 0, <<>>), Text(2, 10, S_Mars_padded),
     Text(2, 10, S_hi), Msg(BotId, TRUE, 10, S_Mars_padded, NoCmd),
     Msg(BotId, TRUE, 10, <<"!">>,
         [name |-> "trivia", member |-> 0, amount |-> 0, when |-> <<>>])}

\* The question is the one about Mars; the roll passes or fails, the XP
\* statements succeed or raise.
MixDraws == {Draw(1, 2, roll, 50, ok) : roll \in {15, 16}, ok \in BOOLEAN}
MixResumeDraws == {Draw(1, 2, roll, 50, TRUE) : roll \in {15, 16}}

InitMix == InitWith(MixConfig, SeenUsers, SeenHist)

NextMix ==
    \/ \E h \in Slots, m \in MixMsgs, r \in MixDraws :
           n_msgs < MaxMixMsgs /\ Receive(h, m, r)
    \/ \E h \in Slots, ok \in BOOLEAN, r \in MixResumeDraws : TrivSend(h, ok, r)
    \/ \E h \in Slots, o \in {"ok", "forbidden", "error"}, r \in MixResumeDraws :
           ReactAdd(h, o, r)
    \/ \E h \in Slots, r \in MixResumeDraws : ReactSleep(h, r)
    \/ \E h \in Slots, ok \in BOOLEAN, r \in MixResumeDraws : ReplySend(h, ok, r)
    \/ \E h \in Slots, ok \in BOOLEAN : CmdSend(h, ok)

SpecMix == InitMix /\ [][NextMix]_vars

\* ------------------------------------ SpecRem: remindme and the worker
S_10m == <<"1", "0", "m">>
S_2h == <<"2", "h">>
S_1d == <<"1", "d">>
S_0s == <<"0", "s">>
S_10x == <<"1", "0", "x">>
S_m10 == <<"m", "1", "0">>
S_10 == <<"1", "0">>
S_1_0m == <<"1", "_", "0", "m">>

\* Reminders due at once in a channel that stays and in one that may go, and a
\* reminder that is not due within the run.
RemMsgs ==
    {Cmd(1, 10, "remindme", 0, 0, S_0s), Cmd(2, 11, "remindme", 0, 0, S_0s),
     Cmd(1, 10, "remindme", 0, 0, S_10m)}

RemDraws == {Draw(1, 1, 1, 50, TRUE)}
WorkerDraws == {Draw(1, 1, 1, 50, ok) : ok \in BOOLEAN}

InitRem == InitWith(DefaultConfig, SeenUsers, SeenHist)

NextRem ==
    \/ \E h \in Slots, m \in RemMsgs, r \in RemDraws :
           /\ n_msgs < MaxRemMsgs
           /\ Cardinality({g \in Slots : task[g].pc # "idle"}) < MaxRemHandlers
           /\ Receive(h, m, r)
    \/ \E h \in Slots, ok \in BOOLEAN : CmdSend(h, ok)
    \/ \E r \in WorkerDraws : WorkerWake(r)
    \/ \E ok \in BOOLEAN, r \in WorkerDraws : WorkerSend(ok, r)
    \/ ChannelGone(11)
    \/ n_ticks < MaxRemTicks /\ Tick(10)

SpecRem == InitRem /\ [][NextRem]_vars

\* ------------------- SpecRemLive: the worker over time, with fairness
LiveMsgs ==
    {Cmd(1, 10, "remindme", 0, 0, S_0s), Cmd(2, 11, "remindme", 0, 0, S_0s)}

\* the draw of a run whose sqlite statements succeed
OkDraw == Draw(1, 1, 1, 50, TRUE)

NextLive ==
    \/ \E h \in Slots, m \in LiveMsgs, r \in RemDraws :
           /\ n_msgs < MaxLiveMsgs
           /\ ~closed
           /\ \A g \in Slots : Free(g)
           /\ Receive(h, m, r)
    \/ \E h \in Slots, ok \in BOOLEAN : CmdSend(h, ok)
    \/ \E r \in WorkerDraws : WorkerWake(r)
    \/ \E ok \in BOOLEAN, r \in WorkerDraws : WorkerSend(ok, r)
    \/ ChannelGone(11)
    \/ SleepOver
    \/ BotClose

\* The sleep returns (the event loop runs the task when its timer is up); a
\* scan and a send that are tried again and again do not fail for ever.
SpecRemLive ==
    /\ InitRem
    /\ [][NextLive]_vars
    /\ WF_vars(SleepOver)
    /\ SF_vars(WorkerWake(OkDraw))
    /\ SF_vars(WorkerSend(TRUE, OkDraw))

\* ------------------------------------------------ SpecRole: reaction roles
\* Reactions with the emoji that gets bound, by both users and by the bot, and
\* reactions of user 1 with another emoji and on another message.
RoleEvents ==
    {RawEvent(k, u, 100, "star") : k \in {"add", "remove"}, u \in UserIds}
    \cup {RawEvent("add", BotId, 100, "star"), RawEvent("add", 1, 100, "heart"),
          RawEvent("add", 1, 101, "star")}

NextRole ==
    \/ \E r \in RoleIds : CreateReactionRole(100, "star", r)
    \/ \E h \in Slots, ev \in RoleEvents :
           ev.kind = "add" /\ RawReactionAdd(h, ev.user, ev.message, ev.emoji)
    \/ \E h \in Slots, ev \in RoleEvents :
           ev.kind = "remove" /\ RawReactionRemove(h, ev.user, ev.message, ev.emoji)
    \/ \E h \in Slots, ok \in BOOLEAN : AddRolesDone(h, ok)
    \/ \E h \in Slots, ok \in BOOLEAN : RemoveRolesDone(h, ok)
    \/ RoleDeleted(8)
    \/ MemberLeft(2)

SpecRole == Init /\ [][NextRole]_vars

\* ---------------------------------------------------------- SpecPoll: poll
S_a == <<"a">>
S_b_padded == <<" ", "b", " ">>
S_blank == <<" ">>

\* opts.split(","): 1, 2, 2, 3, 5 and 6 options once the blank parts are out
PollOpts ==
    {<<S_a, S_blank>>, <<S_a, S_b_padded>>, <<S_a, S_blank, S_b_padded>>,
     <<S_a, S_b_padded, S_a>>, <<S_a, S_b_padded, S_a, S_b_padded, S_a>>,
     <<S_a, S_b_padded, S_a, S_b_padded, S_a, S_b_padded>>}

VoteEmojis == {"1", "2"}

NextPoll ==
    \/ \E parts \in PollOpts : PollStart(parts)
    \/ PollRejectSent
    \/ \E ok \in BOOLEAN : PollRespond(ok)
    \/ \E ok \in BOOLEAN : PollOriginal(ok)
    \/ \E ok \in BOOLEAN : PollFollowup(ok)
    \/ \E ok \in BOOLEAN : PollAddReaction(ok)
    \/ PollReactSleep
    \/ PollWait
    \/ \E ok \in BOOLEAN : PollFetch(ok)
    \/ \E ok \in BOOLEAN : PollAnnounce(ok)
    \/ \E e \in VoteEmojis : Vote(e)

SpecPoll == Init /\ [][NextPoll]_vars

\* ------------------------------------ SpecReact: the loop over the emojis
\* Auto-react on in channel 10 for every message, with the three emojis of
\* the default setting; both users have written before.
ReactConfig == [DefaultConfig EXCEPT !.AUTO_REACT_CHANNEL_IDS = {10}]

ReactMsgs == {Text(1, 10, S_hi), Text(2, 10, S_hi)}

ReactDraw == Draw(1, 1, 1, 50, TRUE)

InitReact == InitWith(ReactConfig, SeenUsers, SeenHist)

NextReact ==
    \/ \E h \in Slots, m \in ReactMsgs :
           n_msgs < MaxReactMsgs /\ Receive(h, m, ReactDraw)
    \/ \E h \in Slots, o \in {"ok", "forbidden", "error"} : ReactAdd(h, o, ReactDraw)
    \/ \E h \in Slots : ReactSleep(h, ReactDraw)

SpecReact == InitReact /\ [][NextReact]_vars

\* ------------------------------------ SpecLvl: XP awards and level-ups
\* Messages of two users and of a bot; every draw of random.randint(1, 3);
\* the statements of add_xp go through or raise; the level-up send returns or
\* raises.
LvlMsgs ==
    {Text(1, 10, S_hi), Text(2, 11, S_hi), Msg(BotId, TRUE, 10, S_hi, NoCmd)}

LvlDraws == {Draw(xp, 1, 1, 50, ok) : xp \in 1..3, ok \in BOOLEAN}

NextLvl ==
    \/ \E h \in Slots, m \in LvlMsgs, r \in LvlDraws :
           n_msgs < MaxLvlMsgs /\ Receive(h, m, r)
    \/ \E h \in Slots, ok \in BOOLEAN : LvlSend(h, ok, Draw(1, 1, 1, 50, TRUE))

SpecLvl == Init /\ [][NextLvl]_vars

\* ------------------- SpecPollOpen: events that arrive while a poll is open
\* One binding for the star on message 100; a poll with two options; the
\* events arrive while poll_slash is in asyncio.sleep(duration): messages,
\* commands and reactions, a message when the message before it has been
\* handled and a reaction when the reaction before it has been handled.
OpenMsgs == {Text(1, 10, S_hi), Cmd(2, 10, "trivia", 0, 0, <<>>)}

OpenDraw == Draw(1, 2, 1, 50, TRUE)

PollOpen == poll.pc = "wait" /\ ~sleep_holds_loop(poll.pc)

\* The gateway delivers a message and on_message starts.
OpenMessage ==
    \E h \in Slots, m \in OpenMsgs :
        /\ PollOpen
        /\ n_msgs < MaxOpenEvents
        /\ \A g \in Slots : task[g].pc = "idle"
        /\ Receive(h, m, OpenDraw)

\* The gateway delivers a reaction and on_raw_reaction_add starts.
OpenReaction ==
    \E h \in Slots :
        /\ PollOpen
        /\ n_msgs < MaxOpenEvents
        /\ \A g \in Slots : rtask[g].pc = "idle"
        /\ RawReactionAdd(h, 1, 100, "star")

\* An await of the on_message handler in frame h returns.
MessageStep(h) ==
    /\ ~sleep_holds_loop(poll.pc)
    /\ \/ \E ok \in BOOLEAN : LvlSend(h, ok, OpenDraw)
       \/ \E ok \in BOOLEAN : CmdSend(h, ok)

\* The await of the reaction handler in frame h returns.
ReactionStep(h) ==
    /\ ~sleep_holds_loop(poll.pc)
    /\ \E ok \in BOOLEAN : AddRolesDone(h, ok)

NextPollOpen ==
    \/ reaction_roles = <<>> /\ CreateReactionRole(100, "star", 8)
    \/ PollStart(<<S_a, S_b_padded>>)
    \/ PollRespond(TRUE)
    \/ PollOriginal(TRUE)
    \/ \E ok \in BOOLEAN : PollAddReaction(ok)
    \/ PollReactSleep
    \/ PollWait
    \/ PollFetch(TRUE)
    \/ PollAnnounce(TRUE)
    \/ OpenMessage
    \/ OpenReaction
    \/ \E h \in Slots : MessageStep(h)
    \/ \E h \in Slots : ReactionStep(h)

\* Every await of a handler of an event returns or raises in the end (the
\* loop resumes a coroutine whose await is over); nothing is asked of the
\* steps of poll_slash, so the poll may stay open for ever.
SpecPollOpen ==
    /\ Init
    /\ [][NextPollOpen]_vars
    /\ \A h \in Slots : WF_vars(MessageStep(h)) /\ WF_vars(ReactionStep(h))

\* ------------------------------------------ SpecMod: kick, ban and warn
\* User 1 is the moderator.  In cmd_kick and cmd_ban the sqlite statements of
\* log_infraction go through or raise (the callback catches the exception); in
\* cmd_warn they go through (an exception there is not caught by the callback
\* and ends it before any effect).
NextMod ==
    \/ \E h \in Slots, u \in UserIds : Kick(h, u, 1)
    \/ \E h \in Slots, u \in UserIds : Ban(h, u, 1)
    \/ \E h \in Slots, u \in UserIds : Warn(h, u, 1, TRUE)
    \/ \E h \in Slots, ok \in BOOLEAN, st \in BOOLEAN : ModActionDone(h, ok, st)
    \/ \E h \in Slots, ok \in BOOLEAN : ModSent(h, ok)
    \/ \E h \in Slots, ok \in BOOLEAN : ModFailSent(h, ok)
    \/ Tick(10)

SpecMod == Init /\ [][NextMod]_vars

\* --------------------------------------- SpecParse: the inputs of remindme
Whens == {S_10m, S_2h, S_1d, S_0s, S_10x, S_m10, S_10, <<>>, S_1_0m}

ParseMsgs == {Cmd(1, 10, "remindme", 0, 0, w) : w \in Whens}

NextParse ==
    \/ \E h \in Slots, m \in ParseMsgs, r \in RemDraws : Receive(h, m, r)
    \/ \E h \in Slots, ok \in BOOLEAN : CmdSend(h, ok)
    \/ Tick(10)

SpecParse == InitRem /\ [][NextParse]_vars

\* ------------------------------------------------------------ observations
Row(U, u) == IF u \in DOMAIN U THEN U[u] ELSE NewUserRow

Count(log, e) == Cardinality({i \in 1..Len(log) : log[i] = e})

InFlight(h) == task[h].pc # "idle"

\* ------------------------------------------------------------------ claims

\* C1: each trivia session yields at most one score increment: between two
\* trivia commands in a channel at most one message increments a score.
C1_OneIncrementPerSession == \A c \in ChannelIds : hist.session_incs[c] <= 1

\* C8: prefix command dispatch is attempted exactly once for every non-bot
\* message, and after all other steps of that message: no frame dispatches
\* twice, a finished frame of a non-bot message has dispatched once, and
\* nothing but the command's own reply follows the dispatch.
DispatchedLast(log) ==
    \A i, j \in 1..Len(log) :
        (i < j /\ log[i] = "dispatch") => log[j] = "cmd_replied"

C8_DispatchOnceLast ==
    /\ \A h \in Slots :
           /\ Count(task[h].log, "dispatch") <= 1
           /\ DispatchedLast(task[h].log)
    /\ LET t == hist.last_done
       IN (t.pc = "done" /\ ~t.bot) =>
              /\ Count(t.log, "dispatch") = 1
              /\ DispatchedLast(t.log)

\* A message that matched the trivia answer has been handled to its end
\* while a message whose XP step raised is past its dispatch.
C8_Witness ==
    /\ hist.last_done.pc = "done"
    /\ Count(hist.last_done.log, "cleared") = 1
    /\ \E h \in Slots :
           /\ Count(task[h].log, "xp_error") = 1
           /\ Count(task[h].log, "dispatch") = 1

Ran(h, name) ==
    /\ task'[h].cmd.name = name
    /\ task'[h].pc = "cmd_send"
    /\ task[h].pc # "cmd_send"

\* C4 as stated: a give that is carried out leaves the sender with its balance
\* before the command minus amount and the recipient with its balance before
\* the command plus amount, for every pair of accounts.
C4_GiveMovesAmount ==
    [][\A h \in Slots :
          (Ran(h, "give") /\ task'[h].result = "gave") =>
              LET a == task'[h].author
                  m == task'[h].cmd.member
                  n == task'[h].cmd.amount
              IN /\ Row(users', a).coins = Row(users, a).coins - n
                 /\ Row(users', m).coins = Row(users, m).coins + n]_vars

\* C4 amended: the same for every pair of distinct accounts; a give to
\* oneself leaves the balance as it was.
C4_GiveMovesAmountDistinct ==
    [][\A h \in Slots :
          (Ran(h, "give") /\ task'[h].result = "gave") =>
              LET a == task'[h].author
                  m == task'[h].cmd.member
                  n == task'[h].cmd.amount
              IN IF a # m
                 THEN /\ Row(users', a).coins = Row(users, a).coins - n
                      /\ Row(users', m).coins = Row(users, m).coins + n
                 ELSE Row(users', a).coins = Row(users, a).coins]_vars

\* A give between two distinct accounts has been carried out.
C4_Witness ==
    \E h \in Slots :
        /\ task[h].pc = "cmd_send" /\ task[h].result = "gave"
        /\ task[h].author # task[h].cmd.member /\ task[h].cmd.amount > 0

\* C5: every account's coin balance is >= 0 in every reachable state.
C5_CoinsNonNegative == \A u \in DOMAIN users : users[u].coins >= 0

\* Two gives of one sender are in flight at once: the first has moved the
\* sender's whole balance, the second was turned down for lack of coins.
C5_Witness ==
    \E h, g \in Slots :
        /\ h # g /\ task[h].author = task[g].author
        /\ task[h].pc = "cmd_send" /\ task[h].result = "gave"
        /\ task[g].pc = "cmd_send" /\ task[g].result = "not_enough"

Last(q) == q[Len(q)]

\* C6: a daily command less than 86400 seconds after the account's last
\* accepted claim is rejected and leaves coins and last_daily as they were;
\* any other adds a reward in 50..150 and sets last_daily to the time of
\* acceptance; and the accepted claims of a user are 86400 seconds apart or more.
C6_Daily ==
    /\ [](\A u \in UserIds : \A i, j \in 1..Len(hist.daily_claims[u]) :
              i < j => hist.daily_claims[u][j] - hist.daily_claims[u][i] >= 86400)
    /\ [][\A h \in Slots :
              Ran(h, "daily") =>
                  LET a == task'[h].author
                      q == hist.daily_claims[a]
                  IN IF q # <<>> /\ clock - Last(q) < 86400
                     THEN /\ task'[h].result = "daily_rejected"
                          /\ Row(users', a).coins = Row(users, a).coins
                          /\ Row(users', a).last_daily = Row(users, a).last_daily
                     ELSE /\ task'[h].result = "daily_ok"
                          /\ Row(users', a).coins - Row(users, a).coins \in 50..150
                          /\ Row(users', a).last_daily = clock
                          /\ hist'.daily_claims[a] = Append(q, clock)]_vars

\* A user has claimed twice, and a claim of that user has been rejected.
C6_Witness ==
    \E u \in UserIds :
        /\ Len(hist.daily_claims[u]) = 2
        /\ \E h \in Slots : task[h].author = u /\ task[h].result = "daily_rejected"

\* C9: no update is lost: the xp and the coins of an account are the sums of
\* the deltas applied to it.
C9_NoLostUpdate ==
    \A u \in UserIds :
        /\ Row(users, u).xp = hist.xp_applied[u]
        /\ Row(users, u).coins = hist.coins_applied[u]

\* An account has received XP awards and coin deltas of both signs while two
\* handlers were in flight.
C9_Witness ==
    \E u \in UserIds :
        /\ hist.xp_applied[u] >= 2
        /\ hist.coins_applied[u] > 0
        /\ \E h, g \in Slots :
               /\ h # g /\ InFlight(h) /\ InFlight(g)
               /\ task[h].result = "gave" /\ task[h].author = u

Abs(x) == IF x < 0 THEN 0 - x ELSE x

Apart(trigs, cooldown) ==
    \A i, j \in 1..Len(trigs) :
        (i < j /\ trigs[i].key = trigs[j].key)
            => Abs(trigs[j].now - trigs[i].now) >= cooldown

\* C7: for auto-react and for auto-reply separately, of two messages of one
\* author in one channel whose handlers took their time (now = time.time())
\* less than the cooldown apart, at most one triggers the action.
C7_OneTriggerPerWindow ==
    /\ Apart(hist.react_trigs, config.AUTO_REACT_COOLDOWN)
    /\ Apart(hist.reply_trigs, config.AUTO_REPLY_COOLDOWN)

\* A qualifying message has been held back by both cooldowns after another
\* message of its author triggered both actions, with a handler suspended.
C7_Witness ==
    /\ Count(hist.last_done.log, "react_cooldown") = 1
    /\ Count(hist.last_done.log, "reply_cooldown") = 1
    /\ hist.react_trigs # <<>> /\ hist.reply_trigs # <<>>
    /\ \E h \in Slots : InFlight(h)

Ids(R) == {r.id : r \in R}

WellFormedWhen(w) ==
    /\ Len(w) >= 2
    /\ w[Len(w)] \in {"s", "m", "h", "d"}
    /\ LET n == SubSeq(w, 1, Len(w) - 1)
           d == IF n[1] \in {"+", "-"} THEN Tail(n) ELSE n
       IN d # <<>> /\ \A i \in 1..Len(d) : IsDigit(d[i])

RECURSIVE DecimalVal(_)
DecimalVal(d) ==
    IF d = <<>> THEN 0
    ELSE 10 * DecimalVal(SubSeq(d, 1, Len(d) - 1)) + DigitVal(d[Len(d)])

WhenSeconds(w) ==
    LET n == SubSeq(w, 1, Len(w) - 1)
        amount == IF n[1] = "-" THEN 0 - DecimalVal(Tail(n))
                  ELSE IF n[1] = "+" THEN DecimalVal(Tail(n))
                  ELSE DecimalVal(n)
    IN amount * UnitSeconds(w[Len(w)])

\* C10: remindme accepts exactly the inputs made of an integer immediately
\* followed by one unit character of s, m, h, d, and then adds one reminder with
\* remind_at = now + amount * unit_seconds; every other input is rejected and
\* leaves the reminders table as it was.
C10_RemindmeAcceptsExactly ==
    [][\A h \in Slots :
          Ran(h, "remindme") =>
              LET w == task'[h].cmd.when
              IN IF WellFormedWhen(w)
                 THEN /\ task'[h].result = "reminder_set"
                      /\ \E r \in reminders' :
                             /\ r \notin reminders
                             /\ reminders' = reminders \cup {r}
                             /\ r.remind_at = clock + WhenSeconds(w)
                 ELSE /\ task'[h].result = "invalid"
                      /\ reminders' = reminders]_vars

\* C11: every reminder in the table is due strictly after the moment it was
\* created, whatever accepted input remindme was given.
C11_DueAfterCreation ==
    \A r \in reminders : r.remind_at > r.created_at

\* The content, trimmed and lowercased, equals the trimmed and lowercased
\* answer of the session that is active in the channel.
IsTriviaAnswer(content, channel) ==
    /\ channel \in DOMAIN active_trivia
    /\ PyLower(PyStrip(content)) = PyLower(PyStrip(active_trivia[channel].answer))

\* The step is the arrival of a message, handled in frame h (the first free
\* one).
Arrives(h) ==
    /\ Free(h)
    /\ \A g \in Slots : g < h => ~Free(g)
    /\ n_msgs' = n_msgs + 1

\* The message that arrives in the step, from the frame that handles it or,
\* when the handler has returned within the step, from the history.
Arrived(h) ==
    IF task'[h].pc # "idle"
    THEN [bot |-> task'[h].bot, channel |-> task'[h].channel,
          content |-> task'[h].content]
    ELSE [bot |-> hist'.last_done.bot, channel |-> hist'.last_done.channel,
          content |-> hist'.last_done.content]

\* The frame h has just taken the trivia branch.
Accepted(h) == task'[h].pc = "triv_send" /\ task[h].pc # "triv_send"

\* The trivia check of the message in frame h runs in this step, after the
\* level-up send the handler was waiting for.
CheckedAfterLevelUp(h) == task[h].pc = "lvl_send" /\ task'[h].pc # "lvl_send"

\* C15 as stated: a message is accepted as a trivia answer exactly when its
\* trimmed, lowercased content equals the trimmed, lowercased answer of the
\* session active in its channel; with no session, no message is accepted.
C15_AcceptedIffMatches ==
    [][/\ \A h \in Slots :
              (Arrives(h) /\ task'[h].pc # "lvl_send")
                  => (Accepted(h) <=>
                          IsTriviaAnswer(Arrived(h).content, Arrived(h).channel))
       /\ \A h \in Slots :
              CheckedAfterLevelUp(h)
                  => (Accepted(h) <=> IsTriviaAnswer(task[h].content, task[h].channel))
      ]_vars

\* C15 amended: a message of a non-bot author is accepted exactly when its
\* trimmed, lowercased content equals the trimmed, lowercased answer of the
\* session that is active in its channel at the moment of the trivia check;
\* a message of a bot author, and any message in a channel without a session,
\* is never accepted.
C15_AcceptedIffMatchesNonBot ==
    [][/\ \A h \in Slots :
              (Arrives(h) /\ task'[h].pc # "lvl_send")
                  => (Accepted(h) <=>
                          /\ ~Arrived(h).bot
                          /\ IsTriviaAnswer(Arrived(h).content, Arrived(h).channel))
       /\ \A h \in Slots :
              CheckedAfterLevelUp(h)
                  => (Accepted(h) <=> IsTriviaAnswer(task[h].content, task[h].channel))
       /\ \A h \in Slots :
              Accepted(h) => task[h].pc \in {"idle", "lvl_send"}
      ]_vars

\* A message typed with spaces and a capital is in the trivia branch while a
\* second frame holds a message that did not match.
C15_Witness ==
    \E h, g \in Slots :
        /\ task[h].pc = "triv_send"
        /\ task[h].content = S_Mars_padded
        /\ task[g].pc = "cmd_send"
        /\ Count(task[g].log, "trivia") = 1

\* The entries a handler leaves when it adds reactions or sends a reply, each
\* written together with the cooldown map of the feature.
AutoActions == {"react", "reply"}

Has(log, e) == \E i \in 1..Len(log) : log[i] = e

\* C16: a message that matched the active trivia answer of its channel clears
\* the session, takes no auto-react and no auto-reply action and changes
\* neither cooldown map, and is still dispatched to the prefix commands.
C16_MatchShortCircuits ==
    /\ \A h \in Slots :
           Has(task[h].log, "score") =>
               \A a \in AutoActions : ~Has(task[h].log, a)
    /\ LET t == hist.last_done
       IN (t.pc = "done" /\ Has(t.log, "score")) =>
              /\ Has(t.log, "cleared")
              /\ \A a \in AutoActions : ~Has(t.log, a)
              /\ Has(t.log, "dispatch")

\* The steps of on_message that come after the step in which e was logged.
LaterSteps(e) ==
    CASE e = "xp_error" -> {"trivia", "auto_react", "auto_reply", "dispatch"}
      [] e = "trivia_error" -> {"auto_react", "auto_reply", "dispatch"}
      [] e = "react_error" -> {"auto_reply", "dispatch"}
      [] e = "reply_error" -> {"dispatch"}
      [] OTHER -> {}

\* The steps a matched trivia answer passes over, failure or not.
ShortCircuited(log) ==
    IF Has(log, "cleared") THEN {"auto_react", "auto_reply"} ELSE {}

\* C17: a failure in the XP award, the trivia check, auto-react or auto-reply
\* does not keep the later steps from running for the same message: in the
\* log of every handled message of a non-bot author, every failure is followed
\* by the evaluation of each later step (but for the steps a matched trivia
\* answer passes over anyway), and the handler runs to its end.
C17_FailureDoesNotBlock ==
    LET t == hist.last_done
    IN (t.pc = "done" /\ ~t.bot) =>
           \A i \in 1..Len(t.log) :
               \A m \in LaterSteps(t.log[i]) \ ShortCircuited(t.log) :
                   \E j \in (i + 1)..Len(t.log) : t.log[j] = m

\* A message has been handled to its end whose XP award, trivia announcement,
\* reaction and reply all failed.
C17_Witness ==
    LET t == hist.last_done
    IN /\ t.pc = "done"
       /\ \A e \in {"xp_error", "trivia_error", "react_error", "reply_error"} :
              Has(t.log, e)
       /\ Has(t.log, "dispatch")

\* C18: no reminder is delivered more than once: over all cycles of the
\* worker, at most one message is successfully sent for each reminder row.
C18_SentAtMostOnce ==
    \A id \in DOMAIN hist.sent : hist.sent[id] <= 1

\* The worker is in a cycle (its send is awaited) or starts one in this step.
InCycle == worker.pc = "send"
StartsCycle == worker.pc = "sleep" /\ worker' # worker

\* C20: every send of the worker is for a row whose remind_at is at most the
\* time at which the cycle took its scan, and a row that is not due at that
\* time is left in the table as it is by the steps of the cycle.
C20_NeverBeforeDue ==
    /\ [](InCycle => worker.rows[worker.i].remind_at <= worker.now)
    /\ [][/\ InCycle =>
                 \A r \in reminders : r.remind_at > worker.now => r \in reminders'
          /\ StartsCycle =>
                 \A r \in reminders : r.remind_at > clock => r \in reminders'
         ]_vars

\* The worker is sending a due reminder while the table holds a reminder that
\* was not due when the cycle scanned and has become due since.
C20_Witness ==
    /\ worker.pc = "send"
    /\ \E r \in reminders : r.remind_at > worker.now /\ r.remind_at <= clock

\* The reminder id is in the table, due, and its channel resolves.
DueAndResolving(id) ==
    \E r \in reminders :
        r.id = id /\ r.remind_at <= clock /\ r.channel_id \in live_channels

\* A message was sent for the reminder id and its row is gone.
Delivered(id) == id \notin Ids(reminders) /\ Get(hist.sent, id, 0) >= 1

\* The channel of the reminder id does not resolve (any more).
NotResolving(id) ==
    \/ \E r \in reminders : r.id = id /\ r.channel_id \notin live_channels
    \/ Get(hist.outcome, id, "") = "no_channel"

C12_GrantedExactlyOnce ==
    LET ev == hist.last_ev
    IN ev.kind = "add" =>
           IF ev.bound # 0
           THEN ev.calls = 1 /\ ev.bound \in ev.after
           ELSE ev.calls = 0 /\ ev.touched = {}

\* C12 amended: a reaction-add event of a member other than the bot itself,
\* for whose triple a binding exists and whose role (that of the binding
\* registered first) and member resolve, makes exactly one add-role action,
\* for that role, and when the action goes through the member holds the role
\* and nobody else's roles have changed; every other reaction-add event (no
\* binding, role or member not resolving, the bot's own reaction) makes no
\* add-role action, and an event whose action is not made or fails changes no
\* role of any member.
C12_GrantedWhenResolved ==
    LET ev == hist.last_ev
    IN ev.kind = "add" =>
           /\ ev.calls = IF ev.user # BotId /\ ev.bound # 0 /\ ev.resolving
                         THEN 1 ELSE 0
           /\ ev.calls = 1 => ev.role = ev.bound
           /\ (ev.calls = 1 /\ ev.ok) =>
                  ev.bound \in ev.after /\ ev.touched \subseteq {ev.user}
           /\ (ev.calls = 0 \/ ~ev.ok) => ev.touched = {}

\* A reaction-add event has granted a role the member did not hold, with two
\* bindings of different roles registered for its triple.
C12_Witness ==
    LET ev == hist.last_ev
    IN /\ ev.kind = "add"
       /\ ev.calls = 1 /\ ev.ok
       /\ ev.bound \notin ev.before /\ ev.bound \in ev.after
       /\ Len(reaction_roles) = 2
       /\ reaction_roles[1].role_id # reaction_roles[2].role_id

\* C13 as stated: after a reaction-add event and then the reaction-remove
\* event of the same member on the same message with the same emoji, the
\* member's roles are what they were before the add event.
C13_RemoveReverses ==
    LET p == hist.pair
    IN p.stage = "done" => p.after = p.before

\* C13 amended: after a reaction-add event has been handled and then the
\* reaction-remove event of the same member, message and emoji, with no other
\* change to the member's roles in between: when the remove handler's
\* remove-role action went through, the member's roles are those before the
\* add event without the bound role (the same as before only if the member
\* did not hold that role before the add); when no remove-role action went
\* through, they are as the add event left them.
C13_RemoveTakesBoundRole ==
    LET p == hist.pair
    IN p.stage = "done" =>
           /\ p.removed => p.after = p.before \ {p.role}
           /\ (p.removed /\ p.role \notin p.before) => p.after = p.before
           /\ ~p.removed => p.after = p.mid

\* The add event granted a role the member did not hold and the remove event
\* has taken it away again.
C13_Witness ==
    LET p == hist.pair
    IN /\ p.stage = "done"
       /\ p.removed
       /\ p.role \notin p.before
       /\ p.role \in p.mid
       /\ p.after = p.before

\* The emojis of the first n options.
OptionEmojis(n) == SubSeq(NUMBER_EMOJIS, 1, n)

PollPastLoop == poll.pc \in {"wait", "fetch", "announce"} \/ poll.result \in {"fetch_failed", "announced"}

PollTallied == poll.pc = "announce" \/ poll.result = "announced"

\* C14 as stated: a poll with N options, 2 <= N <= 5, has exactly N distinct
\* reactions attached to its message in option order, and the tally of each
\* option is its reaction count at the end of the poll minus one.
C14_ReactionsAndTally ==
    LET n == Len(poll.options)
    IN /\ PollPastLoop => poll.attached = OptionEmojis(n)
       /\ PollTallied =>
              \A i \in 1..n :
                  poll.counts[i] = Get(poll.fetched, NUMBER_EMOJIS[i], 0) - 1

PollAddSucceeded(e) ==
    \A i \in 1..Len(NUMBER_EMOJIS) : NUMBER_EMOJIS[i] = e => i \notin poll.failed

\* C14 amended: for a poll with N options, 2 <= N <= 5, whose message was
\* posted, the bot tries to attach the first N number reactions in option
\* order and those whose attachment succeeds are attached, in that order (all
\* N when none fails); when the message is fetched at the end of the poll, the
\* tally of an option is its reaction count then minus one if the message
\* carries its reaction and 0 if it carries none; when that fetch fails no
\* tally is made, and a poll with fewer than 2 or more than 5 options attaches
\* nothing.
C14_AttemptsAndTally ==
    LET n == Len(poll.options)
    IN /\ PollPastLoop =>
              /\ n \in 2..5
              /\ poll.attached = SelectSeq(OptionEmojis(n), PollAddSucceeded)
              /\ poll.failed = {} => poll.attached = OptionEmojis(n)
       /\ PollTallied =>
              \A i \in 1..n :
                  poll.counts[i] =
                      IF NUMBER_EMOJIS[i] \in DOMAIN poll.fetched
                      THEN poll.fetched[NUMBER_EMOJIS[i]] - 1
                      ELSE 0
       /\ poll.result = "fetch_failed" => poll.counts = <<>>
       /\ poll.result = "rejected" =>
              poll.attached = <<>> /\ poll.reactions = EmptyDict

\* The results of a poll with three options are out: one option has a vote,
\* and the reaction of another could not be attached and nobody voted for it.
C14_Witness ==
    /\ poll.result = "announced"
    /\ Len(poll.options) = 3
    /\ \E i \in poll.failed : poll.counts[i] = 0
    /\ \E j \in 1..3 : j \notin poll.failed /\ poll.counts[j] = 1

\* ------------------------------------------------- moderation and its rows
\* A moderation callback returns or raises in this step.
ModEnds ==
    \/ \E h \in Slots : mtask[h].pc # "idle" /\ mtask'[h].pc = "idle"
    \/ n_msgs' # n_msgs /\ mtask' = mtask

\* The rows of the table before the step are the first rows after it.
AppendOnly ==
    /\ Len(infractions') >= Len(infractions)
    /\ SubSeq(infractions', 1, Len(infractions)) = infractions

\* C21: kick and ban append exactly one Infraction row when the platform
\* action succeeds and no row when it fails; warn performs no platform action
\* and appends exactly one row on every invocation; no command ever modifies
\* or deletes an existing Infraction row.
C21_RowsFollowActions ==
    [][/\ AppendOnly
       /\ ModEnds =>
              LET m == hist'.last_mod
              IN /\ m.kind \in {"kick", "ban"} =>
                        m.logged = (IF m.acted THEN 1 ELSE 0)
                 /\ m.kind = "warn" => ~m.acted /\ m.logged = 1]_vars

\* ---------------------------------------------- cooldown entries and gates
\* The handler of frame h runs in this step.
Actor(h) == Arrives(h) \/ (task[h].pc # "idle" /\ task'[h] # task[h])

\* The frame of that handler after the step (the history's, if it returned).
After(h) == IF task'[h].pc # "idle" THEN task'[h] ELSE hist'.last_done

\* The handler passes the point e of on_message in this step.
Passes(h, e) ==
    LET n == IF Arrives(h) THEN 0 ELSE Len(task[h].log)
    IN \E i \in (n + 1)..Len(After(h).log) : After(h).log[i] = e

KeyOf(f) == <<f.author, f.channel>>

KeywordHit(keywords, content) ==
    keywords = {} \/ \E kw \in keywords : Contains(PyLower(content), kw)

\* The conditions of lines 495-499 / 503-504, on the maps before the step.
ReactGate(f) ==
    /\ f.channel \in config.AUTO_REACT_CHANNEL_IDS
    /\ KeywordHit(config.AUTO_REACT_KEYWORDS, f.content)
    /\ f.now - Get(last_react_time, KeyOf(f), 0) >= config.AUTO_REACT_COOLDOWN

\* The conditions of lines 512-516, on the maps before the step.
ReplyGate(f) ==
    /\ f.channel \in config.AUTO_REPLY_CHANNEL_IDS
    /\ KeywordHit(config.AUTO_REPLY_KEYWORDS, f.content)
    /\ f.now - Get(last_reply_time, KeyOf(f), 0) >= config.AUTO_REPLY_COOLDOWN
    /\ f.roll \in 1..config.AUTO_REPLY_CHANCE

\* The frames of the handlers in flight and of the one that returned last.
Frames ==
    {task[h] : h \in {g \in Slots : task[g].pc # "idle"}}
    \cup (IF hist.last_done.pc = "done" THEN {hist.last_done} ELSE {})

\* The message of frame f fails a condition of one of the two features.
FailsSomeGate(f) ==
    \/ f.channel \notin config.AUTO_REACT_CHANNEL_IDS
    \/ f.channel \notin config.AUTO_REPLY_CHANNEL_IDS
    \/ ~KeywordHit(config.AUTO_REACT_KEYWORDS, f.content)
    \/ ~KeywordHit(config.AUTO_REPLY_KEYWORDS, f.content)
    \/ f.roll > config.AUTO_REPLY_CHANCE

\* The handler of frame f has written an entry of one of the two maps (lines
\* 500, 505 or 517).
WroteEntry(f) == Count(f.log, "react") + Count(f.log, "reply") > 0

\* What `now` holds in the handler of frame h during this step: line 492 is
\* run by the step that comes to the auto-react block.
NowOf(h) == IF Passes(h, "auto_react") THEN clock ELSE task[h].now

\* C22 as stated: a cooldown entry is written exactly when the action is
\* triggered, and a message that is outside the configured channels, fails the
\* keyword match or fails the probability roll leaves both cooldown maps
\* unchanged.
C22_UntriggeredLeavesBoth ==
    \A f \in Frames : FailsSomeGate(f) => ~WroteEntry(f)

\* C22 amended: each map is written exactly by the step in which a handler
\* evaluates the conditions of that map's feature and they all hold (channel,
\* keyword, cooldown window of that feature, and the roll for auto-reply); the
\* step writes only the entry of the message's (author, channel) pair, with the
\* handler's time, leaves the other map as it is unless the conditions of the
\* other feature hold in the same step, and suspends at the feature's action.
C22_EntryWrittenIffGatePasses ==
    [][/\ (\A h \in Slots : ~Actor(h)) =>
              /\ last_react_time' = last_react_time
              /\ last_reply_time' = last_reply_time
       /\ \A h \in Slots :
              Actor(h) =>
                  LET f == [After(h) EXCEPT !.now = NowOf(h)]
                      react == Passes(h, "auto_react") /\ ReactGate(f)
                      reply == Passes(h, "auto_reply") /\ ReplyGate(f)
                  IN /\ last_react_time' =
                            IF react THEN Put(last_react_time, KeyOf(f), f.now)
                            ELSE last_react_time
                     /\ last_reply_time' =
                            IF reply THEN Put(last_reply_time, KeyOf(f), f.now)
                            ELSE last_reply_time
                     /\ (react /\ config.AUTO_REACT_EMOJIS # <<>>) =>
                            task'[h].pc = "react_add"
                     /\ reply => task'[h].pc = "reply_send"]_vars

\* A message that triggered auto-react and then failed the roll of auto-reply
\* has written its entry of the react map and none of the reply map; a later
\* message of the same pair was held back by the react cooldown and has
\* triggered auto-reply.
C22_Witness ==
    LET f == hist.last_done
    IN /\ f.pc = "done"
       /\ f.roll > config.AUTO_REPLY_CHANCE
       /\ Count(f.log, "react") = 1
       /\ Len(hist.react_trigs) = 1
       /\ hist.react_trigs[1].key = KeyOf(f)
       /\ \E h \in Slots : /\ task[h].pc = "reply_send"
                           /\ KeyOf(task[h]) = KeyOf(f)
                           /\ task[h].now > Get(last_react_time, KeyOf(f), 0)
                           /\ Count(task[h].log, "react_cooldown") = 1
                           /\ Get(last_reply_time, KeyOf(f), 0) = task[h].now

NewCount(h, e) ==
    Count(After(h).log, e) - (IF Arrives(h) THEN 0 ELSE Count(task[h].log, e))

\* The XP award of the message that arrives in frame h raises the stored
\* level of its author.
Raised(h) ==
    LET a == After(h).author
    IN /\ a \in DOMAIN users'
       /\ users'[a].level > Get(users, a, NewUserRow).level

\* The award of an arriving message: the handler goes to the level-up send
\* exactly when the award raised the level, with the level the table holds.
AwardStep(h) ==
    /\ Raised(h) <=> task'[h].pc = "lvl_send"
    /\ task'[h].pc = "lvl_send" =>
           task'[h].lvl_up = users'[task'[h].author].level
    /\ NewCount(h, "lvl_sent") + NewCount(h, "lvl_failed") = 0

\* C24 as stated: a level-up notification is sent to the originating channel
\* for a message if and only if the XP award of that message raised the
\* author's level; at most one is sent per message and it reports the level
\* stored after the award.
C24_NotifiedIffRaised ==
    [][\A h \in Slots :
           Actor(h) =>
               IF Arrives(h) THEN AwardStep(h)
               ELSE /\ NewCount(h, "lvl_sent") =
                           (IF task[h].pc = "lvl_send" THEN 1 ELSE 0)
                    /\ NewCount(h, "lvl_failed") = 0]_vars

\* C24 amended: the send of a level-up notification to the originating
\* channel is made for a message if and only if the XP award of that message
\* raised the author's level; it is made at most once per message, with the
\* level stored after the award, and it goes through or raises (the exception
\* is passed over and the message is handled on).
C24_SendMadeIffRaised ==
    [][\A h \in Slots :
           Actor(h) =>
               IF Arrives(h) THEN AwardStep(h)
               ELSE /\ NewCount(h, "lvl_sent") + NewCount(h, "lvl_failed") =
                           (IF task[h].pc = "lvl_send" THEN 1 ELSE 0)
                    /\ task[h].pc = "lvl_send" =>
                           /\ After(h).channel = task[h].channel
                           /\ Passes(h, "dispatch")]_vars

\* Three messages have arrived; the award of the last message of user 1 took
\* the level to 2, and the send that reports level 2 went through.
C24_Witness ==
    LET f == hist.last_done
    IN /\ f.pc = "done"
       /\ f.author = 1
       /\ Count(f.log, "lvl_sent") = 1
       /\ users[1].level = 2
       /\ users[1].xp >= 4
       /\ n_msgs = 3

\* ------------------------------------------------- the loop over the emojis
\* C25: when auto-react triggers, the configured emojis are attempted in
\* their configured order; a permission error on one emoji ends the loop so
\* that no later emoji is attempted, whereas any other error on one emoji is
\* followed by the attempt of the next emoji.  Of every handler in flight or
\* returned last: the attempts are the emojis 1, 2, ... in that order, one
\* outcome per attempt made; nothing is attempted after a Forbidden; after
\* another error the next emoji is attempted at once, after a success when
\* the sleep is over; and the loop ends only behind the last emoji or a
\* Forbidden.
C25_EmojisInOrderUntilForbidden ==
    \A f \in Frames :
        LET N == Len(config.AUTO_REACT_EMOJIS)
            k == Len(f.tried)
            m == Len(f.outcomes)
            triggered == Count(f.log, "react") = 1
            looping == f.pc \in {"react_add", "react_sleep"}
        IN /\ f.tried = [j \in 1..k |-> j]
           /\ k <= N
           /\ m = (IF f.pc = "react_add" THEN k - 1 ELSE k)
           /\ (triggered /\ N > 0) <=> k >= 1
           /\ looping => triggered
           /\ \A j \in 1..m :
                  /\ f.outcomes[j] = "forbidden" => k = j /\ ~looping
                  /\ (f.outcomes[j] = "error" /\ j < N) => k > j
                  /\ (f.outcomes[j] = "ok" /\ j < N) =>
                         k > j \/ f.pc = "react_sleep"
           /\ (triggered /\ ~looping /\ N > 0) =>
                  k = N \/ f.outcomes[k] = "forbidden"

\* A handler has returned whose first emoji failed with another error, whose
\* second emoji failed with Forbidden and whose third emoji was not attempted.
C25_Witness ==
    /\ hist.last_done.pc = "done"
    /\ hist.last_done.tried = <<1, 2>>
    /\ hist.last_done.outcomes = <<"error", "forbidden">>
    /\ Len(config.AUTO_REACT_EMOJIS) = 3

\* ------------------------------------------------- messages of bot authors
\* C26: a message authored by a bot changes nothing: it awards no XP,
\* creates no account, cannot answer or clear a trivia session, changes no
\* trivia score, touches no cooldown entry, triggers no auto-react or
\* auto-reply and is not passed to prefix command dispatch.  The step in which
\* such a message arrives leaves the tables and the maps as they are, and its
\* handler returns in that step without having reached any block of
\* on_message.
C26_BotMessageChangesNothing ==
    [][\A h \in Slots :
           (Arrives(h) /\ After(h).bot) =>
               /\ users' = users
               /\ reminders' = reminders
               /\ active_trivia' = active_trivia
               /\ trivia_scores' = trivia_scores
               /\ last_react_time' = last_react_time
               /\ last_reply_time' = last_reply_time
               /\ hist'.react_trigs = hist.react_trigs
               /\ hist'.reply_trigs = hist.reply_trigs
               /\ hist'.xp_applied = hist.xp_applied
               /\ task' = task
               /\ After(h).log = <<>>]_vars

\* The message of a bot that arrived last holds the answer of the session
\* that is active in its channel, where auto-react and auto-reply are on and
\* no cooldown entry stands against it.
C26_Witness ==
    LET f == hist.last_done
    IN /\ f.pc = "done"
       /\ f.bot
       /\ f.channel \in DOMAIN active_trivia
       /\ PyLower(PyStrip(f.content)) = active_trivia[f.channel].answer
       /\ f.channel \in config.AUTO_REACT_CHANNEL_IDS
       /\ f.channel \in config.AUTO_REPLY_CHANNEL_IDS
       /\ KeyOf(f) \notin DOMAIN last_react_time
       /\ KeyOf(f) \notin DOMAIN last_reply_time

====
